---------------------------- MODULE Spec2Model ----------------------------
(***************************************************************************)
(* Model of the connection-resilience and bounded-concurrency core of      *)
(* super-ftp: BaseAdapter (src/src/adapters/base-adapter.ts, the class     *)
(* that starts at line 159) with the protocol primitives of FtpAdapter,    *)
(* and of the SuperFtp facade over it (src/src/super-ftp.ts).              *)
(*                                                                         *)
(* Strings are sequences of one-character strings, so that toLowerCase()   *)
(* and String.prototype.includes() are computed and not assumed.           *)
(***************************************************************************)
EXTENDS Integers, Sequences, FiniteSets, TLC

(***************************************************************************)
(* Bounds of the model.                                                    *)
(***************************************************************************)
\* largest number of requests in one batch
MaxTransfers == 3
\* largest maxConcurrency argument handed to batchTransfer
MaxConcurrency == 3
\* largest maxRetries argument handed to executeWithRetry
MaxRetryArg == 2
\* largest maxReconnectAttempts option handed to initConfig
MaxReconnectArg == 2
\* latest reading of the clock (Date.now) the model distinguishes
MaxClock == 1
\* largest number of clients the factory creates for one SuperFtp
MaxClients == 3

(***************************************************************************)
(* Strings.                                                                *)
(***************************************************************************)
ToLowerChar(c) ==
  CASE c = "A" -> "a" [] c = "B" -> "b" [] c = "C" -> "c" [] c = "D" -> "d"
    [] c = "E" -> "e" [] c = "F" -> "f" [] c = "G" -> "g" [] c = "H" -> "h"
    [] c = "I" -> "i" [] c = "J" -> "j" [] c = "K" -> "k" [] c = "L" -> "l"
    [] c = "M" -> "m" [] c = "N" -> "n" [] c = "O" -> "o" [] c = "P" -> "p"
    [] c = "Q" -> "q" [] c = "R" -> "r" [] c = "S" -> "s" [] c = "T" -> "t"
    [] c = "U" -> "u" [] c = "V" -> "v" [] c = "W" -> "w" [] c = "X" -> "x"
    [] c = "Y" -> "y" [] c = "Z" -> "z" [] OTHER -> c

\* String.prototype.toLowerCase
ToLowerCase(s) == [i \in 1..Len(s) |-> ToLowerChar(s[i])]

\* String.prototype.includes
Includes(s, sub) ==
  \E i \in 0..(Len(s) - Len(sub)) : SubSeq(s, i + 1, i + Len(sub)) = sub

\* the decimal digits of a non-negative integer, as template literals print it
RECURSIVE Digits(_)
Digits(n) ==
  LET d == n % 10
      c == CASE d = 0 -> "0" [] d = 1 -> "1" [] d = 2 -> "2" [] d = 3 -> "3"
             [] d = 4 -> "4" [] d = 5 -> "5" [] d = 6 -> "6" [] d = 7 -> "7"
             [] d = 8 -> "8" [] OTHER -> "9"
  IN  IF n < 10 THEN <<c>> ELSE Digits(n \div 10) \o <<c>>

NumberToString(n) == IF n < 0 THEN <<"-">> \o Digits(-n) ELSE Digits(n)

(***************************************************************************)
(* Thrown values.  kind = "Error": an Error object with that message;      *)
(* kind = "value": a thrown non-Error value whose String() is text;        *)
(* kind = "undefined": the value undefined; kind = "none": nothing thrown. *)
(***************************************************************************)
MkError(msg) == [kind |-> "Error", text |-> msg]
MkValue(txt) == [kind |-> "value", text |-> txt]
Undefined == [kind |-> "undefined", text |-> <<>>]
NoError == [kind |-> "none", text |-> <<>>]

MsgSocketHangUp == <<"s","o","c","k","e","t"," ","h","a","n","g"," ","u","p">>
MsgConnectionReset == <<"C","o","n","n","e","c","t","i","o","n"," ","r","e","s","e","t">>
MsgFileNotFound == <<"F","i","l","e"," ","n","o","t"," ","f","o","u","n","d">>
MsgConnectionTimeout == <<"C","o","n","n","e","c","t","i","o","n"," ","t","i","m","e","o","u","t">>
MsgNotConnected == <<"N","o","t"," ","c","o","n","n","e","c","t","e","d"," ","t","o"," ","s","e","r","v","e","r","."," ","C","a","l","l"," ","c","o","n","n","e","c","t","(",")"," ","f","i","r","s","t",".">>
MsgFailedToCreateClient == <<"F","a","i","l","e","d"," ","t","o"," ","c","r","e","a","t","e"," ","F","T","P"," ","c","l","i","e","n","t">>
MsgEconnreset == <<"E","C","O","N","N","R","E","S","E","T">>

MsgConnectionClosed == <<"C","o","n","n","e","c","t","i","o","n"," ","c","l","o","s","e","d">>
MsgConnectionLost == <<"C","o","n","n","e","c","t","i","o","n"," ","l","o","s","t">>
MsgRequestTimeout == <<"R","e","q","u","e","s","t"," ","T","I","M","E","O","U","T">>
MsgNetworkUnreachable == <<"N","e","t","w","o","r","k"," ","u","n","r","e","a","c","h","a","b","l","e">>
MsgServiceUnavailable == <<"5","0","3"," ","S","e","r","v","i","c","e"," ","U","n","a","v","a","i","l","a","b","l","e">>
PrefixFailedToUpload == <<"F","a","i","l","e","d"," ","t","o"," ","u","p","l","o","a","d"," ","f","i","l","e",":"," ">>

\* error.message, with "" standing for undefined as well (both are falsy)
MessageOf(e) == IF e.kind = "Error" THEN e.text ELSE <<>>

\* String(error)
StringOf(e) ==
  CASE e.kind = "Error" ->
         IF e.text = <<>> THEN <<"E","r","r","o","r">>
         ELSE <<"E","r","r","o","r",":"," ">> \o e.text
    [] e.kind = "value" -> e.text
    [] OTHER -> <<"u","n","d","e","f","i","n","e","d">>

\* mutant of retryableErrors: "socket" is missing from the list
retryableErrorsNoSocket ==
  << <<"t","i","m","e","o","u","t">>,
     <<"c","o","n","n","e","c","t","i","o","n">>,
     <<"n","e","t","w","o","r","k">>,
     <<"e","c","o","n","n","r","e","s","e","t">>,
     <<"e","c","o","n","n","r","e","f","u","s","e","d">>,
     <<"e","t","i","m","e","d","o","u","t">>,
     <<"t","e","m","p","o","r","a","r","y">>,
     <<"5","0","3">>,
     <<"5","0","2">>,
     <<"5","0","4">> >>

retryableErrors ==
  << <<"t","i","m","e","o","u","t">>,
     <<"c","o","n","n","e","c","t","i","o","n">>,
     <<"n","e","t","w","o","r","k">>,
     <<"e","c","o","n","n","r","e","s","e","t">>,
     <<"e","c","o","n","n","r","e","f","u","s","e","d">>,
     <<"e","t","i","m","e","d","o","u","t">>,
     <<"s","o","c","k","e","t">>,
     <<"t","e","m","p","o","r","a","r","y">>,
     <<"5","0","3">>,
     <<"5","0","2">>,
     <<"5","0","4">> >>

reconnectableErrors ==
  << <<"c","o","n","n","e","c","t","i","o","n"," ","c","l","o","s","e","d">>,
     <<"c","o","n","n","e","c","t","i","o","n"," ","r","e","s","e","t">>,
     <<"c","o","n","n","e","c","t","i","o","n"," ","l","o","s","t">>,
     <<"s","o","c","k","e","t"," ","h","a","n","g"," ","u","p">>,
     <<"t","i","m","e","o","u","t">>,
     <<"n","o","t"," ","c","o","n","n","e","c","t","e","d">> >>

\* BaseAdapter.isRetryableError
isRetryableError(error) ==
  LET errorMessage ==
        ToLowerCase(IF MessageOf(error) # <<>> THEN MessageOf(error)
                    ELSE StringOf(error))
  IN  \E i \in 1..Len(retryableErrors) : Includes(errorMessage, retryableErrors[i])

\* the message test of shouldAttemptReconnect (lines 303-313)
matchesReconnectable(error) ==
  LET errorMessage == ToLowerCase(MessageOf(error))
  IN  \E i \in 1..Len(reconnectableErrors) :
        Includes(errorMessage, reconnectableErrors[i])

(***************************************************************************)
(* The values the environment can throw: the failures of the wrapped       *)
(* operation, of the transfers and of the protocol primitives.             *)
(***************************************************************************)
OperationErrors ==
  { MkError(MsgSocketHangUp), MkError(MsgConnectionReset),
    MkError(MsgFileNotFound), MkError(MsgNotConnected),
    MkValue(MsgEconnreset) }

\* what client.access() rejects with
ConnectErrors == { MkError(MsgConnectionTimeout), MkError(MsgFileNotFound) }

\* what client.close() throws and what client.pwd() rejects with
CloseErrors == { MkError(MsgSocketHangUp) }
PwdErrors == { MkError(MsgConnectionReset) }

\* `${error.message}` inside a template literal
TemplateMessage(e) ==
  IF e.kind = "Error" THEN e.text ELSE <<"u","n","d","e","f","i","n","e","d">>

PrefixFailedToConnect == <<"F","a","i","l","e","d"," ","t","o"," ","c","o","n","n","e","c","t"," ","t","o"," ","F","T","P"," ","s","e","r","v","e","r",":"," ">>
PrefixFailedToDisconnect == <<"F","a","i","l","e","d"," ","t","o"," ","d","i","s","c","o","n","n","e","c","t"," ","f","r","o","m"," ","F","T","P"," ","s","e","r","v","e","r",":"," ">>
PrefixFailedToReconnect == <<"F","a","i","l","e","d"," ","t","o"," ","r","e","c","o","n","n","e","c","t"," ","a","f","t","e","r"," ">>
SuffixAttempts == <<" ","a","t","t","e","m","p","t","s",":"," ">>
PrefixFailedPwd == <<"F","a","i","l","e","d"," ","t","o"," ","g","e","t"," ","c","u","r","r","e","n","t"," ","d","i","r","e","c","t","o","r","y",":"," ">>

(***************************************************************************)
(* Optional arguments and options: <<>> is undefined, <<v>> is the value v.*)
(***************************************************************************)
Undef == <<>>
Some(v) == <<v>>
IsDefined(o) == o # <<>>
ValueOf(o) == o[1]

\* field initialisers of BaseAdapter, which are also the defaults of initConfig
DefaultMaxReconnectAttempts == 3
DefaultReconnectDelay == 1000
DefaultMaxRetries == 3
DefaultRetryDelay == 1000
DefaultRetryBackoffMultiplier == 2
DefaultMaxConcurrency == 5

\* mutant of NumberOr: `x ?? d`, which keeps a supplied 0
NumberOrKeepsZero(o, d) == IF IsDefined(o) THEN ValueOf(o) ELSE d

\* `x || d` on a numeric option: undefined and 0 are falsy
NumberOr(o, d) == IF IsDefined(o) /\ ValueOf(o) # 0 THEN ValueOf(o) ELSE d

VARIABLES
  \* fields of BaseAdapter
  connected, hasConnectedBefore, lastActivity, autoReconnect,
  maxReconnectAttempts, reconnectDelay, maxRetries, retryDelay,
  retryBackoffMultiplier,
  \* whether the constructor has finished, and the clock read by new Date()
  constructed, now,
  \* a caller's connect() and forceReconnect() calls
  connectCall, forceCall,
  \* the caller's call of connect, disconnect, healthCheck or forceReconnect
  \* that finished last, and how it ended
  lastCall,
  \* one executeWithReconnect call
  reconnectCall,
  \* one executeWithRetry call
  retryCall,
  \* one batchTransfer call
  batchCall,
  \* SuperFtp: its client field (0 is null), the clients the factory has
  \* created for it, and the calls of its callers
  client, clients, facadeCalls,
  \* the error a caller last had classified by isRetryableError and
  \* shouldAttemptReconnect, and what they answered
  classified

adapterVars ==
  << connected, hasConnectedBefore, lastActivity, autoReconnect,
     maxReconnectAttempts, reconnectDelay, maxRetries, retryDelay,
     retryBackoffMultiplier, constructed >>

policyVars ==
  << autoReconnect, maxReconnectAttempts, reconnectDelay, maxRetries,
     retryDelay, retryBackoffMultiplier, constructed >>

vars ==
  << connected, hasConnectedBefore, lastActivity, autoReconnect,
     maxReconnectAttempts, reconnectDelay, maxRetries, retryDelay,
     retryBackoffMultiplier, constructed, now, connectCall, forceCall,
     lastCall, reconnectCall, retryCall, batchCall,
     client, clients, facadeCalls, classified >>

facadeVars == << client, clients, facadeCalls >>

classifyVars == << classified >>


(***************************************************************************)
(* Construction.                                                           *)
(***************************************************************************)
\* calledConnected: the value of connected when connect() was called;
\* accessCalls: how often the call has invoked the connect primitive
IdleConnectCall == [pc |-> "idle", calledConnected |-> FALSE, accessCalls |-> 0]

IdleForceCall == [pc |-> "idle"]

NoCall == [op |-> "none", outcome |-> "none", thrown |-> NoError]

\* how a caller's call ended: it returned value, or it threw
Ended(op, thrown, value) ==
  [op |-> op,
   outcome |-> IF thrown = NoError THEN value ELSE "threw",
   thrown |-> thrown]

IdleReconnectCall ==
  [pc |-> "idle", opCalls |-> 0, connects |-> 0, attempt |-> 0,
   connectLog |-> <<>>, sleeps |-> <<>>, caught |-> NoError,
   retryRejection |-> NoError,
   gate |-> [evaluated |-> FALSE, should |-> FALSE, before |-> FALSE,
             reconnect |-> FALSE],
   thrown |-> NoError, result |-> <<>>]

IdleRetryCall ==
  [pc |-> "idle", maxAttempts |-> 0, initialDelay |-> 0, multiplier |-> 0,
   attempt |-> 0, currentDelay |-> 0, lastError |-> Undefined,
   log |-> <<>>, outcomes |-> <<>>, thrown |-> NoError, result |-> <<>>]

IdleBatchCall ==
  [pc |-> "idle", transfers |-> <<>>, maxConcurrency |-> 0, next |-> 1,
   executing |-> <<>>, results |-> <<>>, tasks |-> <<>>, waitingOn |-> {},
   settleOrder |-> <<>>, thrown |-> NoError]

\* the callers that share one SuperFtp
Callers == {"a", "b"}

\* a caller's call on the facade.  mine: the client this call created and
\* connects; target: the client the operation was invoked on;
\* targetHadConnected, targetConnected: whether a connect() of the target had
\* succeeded, and whether the target was connected, when the operation was
\* invoked on it
IdleFacadeCall ==
  [pc |-> "idle", op |-> "none", calledConnected |-> FALSE, mine |-> 0,
   target |-> 0, targetHadConnected |-> FALSE, targetConnected |-> FALSE,
   thrown |-> NoError]

\* nothing classified yet.  retryable: what isRetryableError returned;
\* should: what shouldAttemptReconnect returned; matched: the outcome of its
\* message test (lines 303-313), when the call got that far
NoClassification ==
  [error |-> NoError, retryable |-> Undef, should |-> Undef,
   matched |-> Undef]

\* the field initialisers of BaseAdapter (lines 160-168) and of SuperFtp
Init ==
  /\ connected = FALSE
  /\ hasConnectedBefore = FALSE
  /\ lastActivity = 0
  /\ autoReconnect = TRUE
  /\ maxReconnectAttempts = DefaultMaxReconnectAttempts
  /\ reconnectDelay = DefaultReconnectDelay
  /\ maxRetries = DefaultMaxRetries
  /\ retryDelay = DefaultRetryDelay
  /\ retryBackoffMultiplier = DefaultRetryBackoffMultiplier
  /\ constructed = FALSE
  /\ now = 0
  /\ connectCall = IdleConnectCall
  /\ forceCall = IdleForceCall
  /\ lastCall = NoCall
  /\ reconnectCall = IdleReconnectCall
  /\ retryCall = IdleRetryCall
  /\ batchCall = IdleBatchCall
  /\ client = 0
  /\ clients = <<>>
  /\ facadeCalls = [c \in Callers |-> IdleFacadeCall]
  /\ classified = NoClassification

callVars ==
  << connectCall, forceCall, lastCall, reconnectCall,
     retryCall, batchCall >>

\* BaseAdapter.initConfig: the values the fields get from baseConfig
initConfig(baseConfig) ==
  [autoReconnect |->
     IF IsDefined(baseConfig.autoReconnect)
     THEN ValueOf(baseConfig.autoReconnect) ELSE TRUE,
   maxReconnectAttempts |->
     NumberOr(baseConfig.maxReconnectAttempts, DefaultMaxReconnectAttempts),
   reconnectDelay |-> NumberOr(baseConfig.reconnectDelay, DefaultReconnectDelay),
   maxRetries |-> NumberOr(baseConfig.maxRetries, DefaultMaxRetries),
   retryDelay |-> NumberOr(baseConfig.retryDelay, DefaultRetryDelay),
   retryBackoffMultiplier |->
     NumberOr(baseConfig.retryBackoffMultiplier, DefaultRetryBackoffMultiplier)]

\* a constructor that calls initConfig(baseConfig)
InitConfig(baseConfig) ==
  /\ ~constructed
  /\ LET c == initConfig(baseConfig)
     IN  /\ autoReconnect' = c.autoReconnect
         /\ maxReconnectAttempts' = c.maxReconnectAttempts
         /\ reconnectDelay' = c.reconnectDelay
         /\ maxRetries' = c.maxRetries
         /\ retryDelay' = c.retryDelay
         /\ retryBackoffMultiplier' = c.retryBackoffMultiplier
  /\ constructed' = TRUE
  /\ UNCHANGED << connected, hasConnectedBefore, lastActivity, now >>
  /\ UNCHANGED callVars
  /\ UNCHANGED facadeVars
  /\ UNCHANGED classifyVars

\* a constructor that leaves the field initialisers as they are
\* (FtpAdapter's constructor)
Construct ==
  /\ ~constructed
  /\ constructed' = TRUE
  /\ UNCHANGED << connected, hasConnectedBefore, lastActivity, autoReconnect,
                  maxReconnectAttempts, reconnectDelay, maxRetries, retryDelay,
                  retryBackoffMultiplier, now >>
  /\ UNCHANGED callVars
  /\ UNCHANGED facadeVars
  /\ UNCHANGED classifyVars

\* the clock advances
Tick ==
  /\ now < MaxClock
  /\ now' = now + 1
  /\ UNCHANGED adapterVars
  /\ UNCHANGED facadeVars
  /\ UNCHANGED classifyVars
  /\ UNCHANGED callVars

(***************************************************************************)
(* Connection lifecycle.                                                   *)
(***************************************************************************)
\* mutant of _connect: a failure leaves the connected flag as it was
_connectKeepsFlag(ok, err) ==
  IF ok
  THEN [connected |-> TRUE, thrown |-> NoError]
  ELSE [connected |-> connected,
        thrown |-> MkError(PrefixFailedToConnect \o TemplateMessage(err))]

\* the protocol-specific connect primitive (BaseAdapter._connect, abstract);
\* its body is that of FtpAdapter.connect, the connect primitive of the FTP
\* adapter.
\* ok: client.access() resolved; otherwise it rejected with err.
\* The result is the new value of connected and the value thrown.
_connect(ok, err) ==
  IF ok
  THEN [connected |-> TRUE, thrown |-> NoError]
  ELSE [connected |-> FALSE,
        thrown |-> MkError(PrefixFailedToConnect \o TemplateMessage(err))]

\* mutant of connect: the flag is set before the primitive is awaited
connectFlagFirst(ok, err) ==
  LET p == _connect(ok, err)
  IN  [connected |-> p.connected, hasConnectedBefore |-> TRUE,
       thrown |-> p.thrown]

\* BaseAdapter.connect, from the moment the primitive settles:
\* await this._connect(); this.hasConnectedBefore = true
connect(ok, err) ==
  LET p == _connect(ok, err)
  IN  [connected |-> p.connected,
       hasConnectedBefore |-> IF p.thrown = NoError THEN TRUE
                              ELSE hasConnectedBefore,
       thrown |-> p.thrown]

\* a caller invokes connect(): the primitive is started
ConnectInvoke ==
  /\ constructed
  /\ connectCall.pc = "idle"
  /\ connectCall' = [pc |-> "pending", calledConnected |-> connected,
                     accessCalls |-> 1]
  /\ UNCHANGED << forceCall, lastCall, reconnectCall,
                  retryCall, batchCall, now >>
  /\ UNCHANGED adapterVars
  /\ UNCHANGED facadeVars
  /\ UNCHANGED classifyVars

\* mutant of ConnectSettle: after a failure connect() invokes the primitive
\* a second time before it gives up
ConnectSettleRetries(ok, err) ==
  /\ connectCall.pc = "pending"
  /\ LET c == connect(ok, err)
         again == c.thrown # NoError /\ connectCall.accessCalls < 2
     IN  /\ connected' = c.connected
         /\ hasConnectedBefore' = c.hasConnectedBefore
         /\ connectCall' = IF again
                           THEN [connectCall EXCEPT !.accessCalls = @ + 1]
                           ELSE IdleConnectCall
         /\ lastCall' = IF again THEN lastCall
                         ELSE Ended("connect", c.thrown, "returned")
  /\ UNCHANGED << forceCall, reconnectCall,
                  retryCall, batchCall, now, lastActivity >>
  /\ UNCHANGED policyVars
  /\ UNCHANGED facadeVars
  /\ UNCHANGED classifyVars

\* the primitive of the caller's connect() settles and connect() finishes
ConnectSettle(ok, err) ==
  /\ connectCall.pc = "pending"
  /\ LET c == connect(ok, err)
     IN  /\ connected' = c.connected
         /\ hasConnectedBefore' = c.hasConnectedBefore
         /\ connectCall' = IdleConnectCall
         /\ lastCall' = Ended("connect", c.thrown, "returned")
  /\ UNCHANGED << forceCall, reconnectCall,
                  retryCall, batchCall, now, lastActivity >>
  /\ UNCHANGED policyVars
  /\ UNCHANGED facadeVars
  /\ UNCHANGED classifyVars

\* FtpAdapter.disconnect.  closeOk: client.close() returned; otherwise it
\* threw err.
disconnect(closeOk, err) ==
  IF connected
  THEN IF closeOk
       THEN [connected |-> FALSE, hasConnectedBefore |-> hasConnectedBefore,
             thrown |-> NoError]
       ELSE [connected |-> connected, hasConnectedBefore |-> hasConnectedBefore,
             thrown |-> MkError(PrefixFailedToDisconnect \o TemplateMessage(err))]
  ELSE [connected |-> connected, hasConnectedBefore |-> hasConnectedBefore,
        thrown |-> NoError]

\* a caller's disconnect()
Disconnect(closeOk, err) ==
  /\ constructed
  /\ LET d == disconnect(closeOk, err)
     IN  /\ connected' = d.connected
         /\ hasConnectedBefore' = d.hasConnectedBefore
         /\ lastCall' = Ended("disconnect", d.thrown, "returned")
  /\ UNCHANGED << connectCall, forceCall, reconnectCall,
                  retryCall, batchCall, now, lastActivity >>
  /\ UNCHANGED policyVars
  /\ UNCHANGED facadeVars
  /\ UNCHANGED classifyVars

\* FtpAdapter.pwd.  pwdOk: client.pwd() resolved; otherwise it rejected
\* with err.  The result is the value thrown (NoError when it returns).
pwd(pwdOk, err) ==
  IF ~connected THEN MkError(MsgNotConnected)
  ELSE IF pwdOk THEN NoError
  ELSE MkError(PrefixFailedPwd \o TemplateMessage(err))

\* mutant of healthCheck: a failed round trip leaves connected as it was
healthCheckKeepsFlag(pwdOk, err) ==
  IF pwd(pwdOk, err) = NoError
  THEN [connected |-> connected, lastActivity |-> now, result |-> TRUE]
  ELSE [connected |-> connected, lastActivity |-> lastActivity,
        result |-> FALSE]

\* BaseAdapter.healthCheck
healthCheck(pwdOk, err) ==
  IF pwd(pwdOk, err) = NoError
  THEN [connected |-> connected, lastActivity |-> now, result |-> TRUE]
  ELSE [connected |-> FALSE, lastActivity |-> lastActivity, result |-> FALSE]

\* a caller's healthCheck()
HealthCheck(pwdOk, err) ==
  /\ constructed
  /\ LET h == healthCheck(pwdOk, err)
     IN  /\ connected' = h.connected
         /\ lastActivity' = h.lastActivity
         /\ lastCall' = Ended("healthCheck", NoError,
                               IF h.result THEN "true" ELSE "false")
  /\ UNCHANGED << connectCall, forceCall, reconnectCall,
                  retryCall, batchCall, now, hasConnectedBefore >>
  /\ UNCHANGED policyVars
  /\ UNCHANGED facadeVars
  /\ UNCHANGED classifyVars

\* BaseAdapter.forceReconnect up to its second await:
\* await this.disconnect(); then connect() is invoked unless disconnect threw
ForceReconnectInvoke(closeOk, err) ==
  /\ constructed
  /\ forceCall.pc = "idle"
  /\ LET d == disconnect(closeOk, err)
     IN  /\ connected' = d.connected
         /\ hasConnectedBefore' = d.hasConnectedBefore
         /\ forceCall' = IF d.thrown = NoError
                         THEN [pc |-> "connecting"] ELSE [pc |-> "idle"]
         /\ lastCall' = IF d.thrown = NoError THEN lastCall
                         ELSE Ended("forceReconnect", d.thrown, "returned")
  /\ UNCHANGED << connectCall, reconnectCall,
                  retryCall, batchCall, now, lastActivity >>
  /\ UNCHANGED policyVars
  /\ UNCHANGED facadeVars
  /\ UNCHANGED classifyVars

\* the connect() of forceReconnect finishes
ForceReconnectSettle(ok, err) ==
  /\ forceCall.pc = "connecting"
  /\ LET c == connect(ok, err)
     IN  /\ connected' = c.connected
         /\ hasConnectedBefore' = c.hasConnectedBefore
         /\ forceCall' = [pc |-> "idle"]
         /\ lastCall' = Ended("forceReconnect", c.thrown, "returned")
  /\ UNCHANGED << connectCall, reconnectCall,
                  retryCall, batchCall, now, lastActivity >>
  /\ UNCHANGED policyVars
  /\ UNCHANGED facadeVars
  /\ UNCHANGED classifyVars


(***************************************************************************)
(* executeWithReconnect and attemptReconnect.                              *)
(***************************************************************************)
\* the values the wrapped operation can return
OperationValues == {"success", "other"}

\* mutant of shouldAttemptReconnect: the connected flag is not consulted
shouldAttemptReconnectIgnoresConnected(error) ==
  IF ~autoReconnect THEN FALSE
  ELSE matchesReconnectable(error)

\* BaseAdapter.shouldAttemptReconnect
shouldAttemptReconnect(error) ==
  IF ~autoReconnect \/ connected THEN FALSE
  ELSE matchesReconnectable(error)

\* mutant of reconnectGate: the history of the adapter is not consulted
reconnectGateNoHistory(error) == shouldAttemptReconnect(error)

\* the condition of the catch block of executeWithReconnect (line 219)
reconnectGate(error) == shouldAttemptReconnect(error) /\ hasConnectedBefore

\* the head of the loop of attemptReconnect on a call record rc: either
\* connect() is invoked for this attempt, or the loop is over,
\* attemptReconnect returns and executeWithReconnect invokes the operation
\* again (line 222)
attemptReconnectLoop(rc, attempt) ==
  IF attempt <= maxReconnectAttempts
  THEN [rc EXCEPT !.pc = "connecting", !.attempt = attempt,
                  !.connects = @ + 1]
  ELSE [rc EXCEPT !.pc = "retrying", !.attempt = attempt, !.opCalls = @ + 1]

\* the error attemptReconnect throws after its last attempt (lines 326-328)
reconnectError(error) ==
  MkError(PrefixFailedToReconnect \o NumberToString(maxReconnectAttempts)
          \o SuffixAttempts \o TemplateMessage(error))

\* executeWithReconnect is called: updateActivity(), then operation()
ExecuteWithReconnectInvoke ==
  /\ constructed
  /\ reconnectCall.pc \in {"idle", "returned", "threw"}
  /\ lastActivity' = now
  /\ reconnectCall' = [IdleReconnectCall EXCEPT !.pc = "operation",
                                                !.opCalls = 1]
  /\ UNCHANGED << connectCall, forceCall, lastCall,
                  retryCall, batchCall, now, connected, hasConnectedBefore >>
  /\ UNCHANGED policyVars
  /\ UNCHANGED facadeVars
  /\ UNCHANGED classifyVars

\* the first operation() resolves with value
ExecuteWithReconnectResolve(value) ==
  /\ reconnectCall.pc = "operation"
  /\ reconnectCall' = [reconnectCall EXCEPT !.pc = "returned",
                                            !.result = <<value>>]
  /\ UNCHANGED << connectCall, forceCall, lastCall,
                  retryCall, batchCall, now >>
  /\ UNCHANGED adapterVars
  /\ UNCHANGED facadeVars
  /\ UNCHANGED classifyVars

\* the first operation() rejects with error: the catch block
ExecuteWithReconnectCatch(error) ==
  /\ reconnectCall.pc = "operation"
  /\ LET caught == [reconnectCall EXCEPT
                      !.caught = error,
                      !.gate = [evaluated |-> TRUE,
                                should |-> shouldAttemptReconnect(error),
                                before |-> hasConnectedBefore,
                                reconnect |-> reconnectGate(error)]]
     IN  reconnectCall' =
           IF reconnectGate(error)
           THEN attemptReconnectLoop(caught, 1)
           ELSE [caught EXCEPT !.pc = "threw", !.thrown = error]
  /\ UNCHANGED << connectCall, forceCall, lastCall,
                  retryCall, batchCall, now >>
  /\ UNCHANGED adapterVars
  /\ UNCHANGED facadeVars
  /\ UNCHANGED classifyVars

\* mutant of AttemptReconnectSettle: the return after a successful connect()
\* is missing, so the loop goes on to its next attempt
AttemptReconnectSettleNoReturn(ok, err) ==
  /\ reconnectCall.pc = "connecting"
  /\ LET c == connect(ok, err)
     IN  /\ connected' = c.connected
         /\ hasConnectedBefore' = c.hasConnectedBefore
         /\ reconnectCall' =
              IF c.thrown # NoError
                 /\ reconnectCall.attempt = maxReconnectAttempts
              THEN [reconnectCall EXCEPT !.pc = "threw",
                                         !.connectLog = Append(@, c.thrown),
                                         !.thrown = reconnectError(c.thrown)]
              ELSE [reconnectCall EXCEPT
                      !.pc = "sleeping",
                      !.connectLog = Append(@, c.thrown),
                      !.sleeps = Append(@, reconnectDelay * reconnectCall.attempt)]
  /\ UNCHANGED << connectCall, forceCall, lastCall,
                  retryCall, batchCall, now, lastActivity >>
  /\ UNCHANGED policyVars
  /\ UNCHANGED facadeVars
  /\ UNCHANGED classifyVars

\* mutant of AttemptReconnectSettle: after the last attempt the error of the
\* operation is thrown instead of a reconnect error
AttemptReconnectSettleRethrows(ok, err) ==
  /\ reconnectCall.pc = "connecting"
  /\ LET c == connect(ok, err)
     IN  /\ connected' = c.connected
         /\ hasConnectedBefore' = c.hasConnectedBefore
         /\ reconnectCall' =
              IF c.thrown = NoError
              THEN [reconnectCall EXCEPT !.pc = "retrying",
                                         !.connectLog = Append(@, c.thrown),
                                         !.opCalls = @ + 1]
              ELSE IF reconnectCall.attempt = maxReconnectAttempts
              THEN [reconnectCall EXCEPT !.pc = "threw",
                                         !.connectLog = Append(@, c.thrown),
                                         !.thrown = reconnectCall.caught]
              ELSE [reconnectCall EXCEPT
                      !.pc = "sleeping",
                      !.connectLog = Append(@, c.thrown),
                      !.sleeps = Append(@, reconnectDelay * reconnectCall.attempt)]
  /\ UNCHANGED << connectCall, forceCall, lastCall,
                  retryCall, batchCall, now, lastActivity >>
  /\ UNCHANGED policyVars
  /\ UNCHANGED facadeVars
  /\ UNCHANGED classifyVars

\* mutant of AttemptReconnectSettle: the sleep between two attempts does not
\* grow with the attempt number
AttemptReconnectSettleConstantDelay(ok, err) ==
  /\ reconnectCall.pc = "connecting"
  /\ LET c == connect(ok, err)
     IN  /\ connected' = c.connected
         /\ hasConnectedBefore' = c.hasConnectedBefore
         /\ reconnectCall' =
              IF c.thrown = NoError
              THEN [reconnectCall EXCEPT !.pc = "retrying",
                                         !.connectLog = Append(@, c.thrown),
                                         !.opCalls = @ + 1]
              ELSE IF reconnectCall.attempt = maxReconnectAttempts
              THEN [reconnectCall EXCEPT !.pc = "threw",
                                         !.connectLog = Append(@, c.thrown),
                                         !.thrown = reconnectError(c.thrown)]
              ELSE [reconnectCall EXCEPT
                      !.pc = "sleeping",
                      !.connectLog = Append(@, c.thrown),
                      !.sleeps = Append(@, reconnectDelay)]
  /\ UNCHANGED << connectCall, forceCall, lastCall,
                  retryCall, batchCall, now, lastActivity >>
  /\ UNCHANGED policyVars
  /\ UNCHANGED facadeVars
  /\ UNCHANGED classifyVars

\* the connect() of the current attempt of attemptReconnect finishes;
\* connectLog records what each connect() of the call threw (NoError when
\* it returned)
AttemptReconnectSettle(ok, err) ==
  /\ reconnectCall.pc = "connecting"
  /\ LET c == connect(ok, err)
     IN  /\ connected' = c.connected
         /\ hasConnectedBefore' = c.hasConnectedBefore
         /\ reconnectCall' =
              IF c.thrown = NoError
              THEN [reconnectCall EXCEPT !.pc = "retrying",
                                         !.connectLog = Append(@, c.thrown),
                                         !.opCalls = @ + 1]
              ELSE IF reconnectCall.attempt = maxReconnectAttempts
              THEN [reconnectCall EXCEPT !.pc = "threw",
                                         !.connectLog = Append(@, c.thrown),
                                         !.thrown = reconnectError(c.thrown)]
              ELSE [reconnectCall EXCEPT
                      !.pc = "sleeping",
                      !.connectLog = Append(@, c.thrown),
                      !.sleeps = Append(@, reconnectDelay * reconnectCall.attempt)]
  /\ UNCHANGED << connectCall, forceCall, lastCall,
                  retryCall, batchCall, now, lastActivity >>
  /\ UNCHANGED policyVars
  /\ UNCHANGED facadeVars
  /\ UNCHANGED classifyVars

\* the sleep between two attempts of attemptReconnect is over
AttemptReconnectWake ==
  /\ reconnectCall.pc = "sleeping"
  /\ reconnectCall' = attemptReconnectLoop(reconnectCall,
                                           reconnectCall.attempt + 1)
  /\ UNCHANGED << connectCall, forceCall, lastCall,
                  retryCall, batchCall, now >>
  /\ UNCHANGED adapterVars
  /\ UNCHANGED facadeVars
  /\ UNCHANGED classifyVars

\* mutant of ExecuteWithReconnectRetrySettle: the second failure goes through
\* the reconnect condition again, as in a retry loop
ExecuteWithReconnectRetrySettleLoops(ok, value, error) ==
  /\ reconnectCall.pc = "retrying"
  /\ reconnectCall' =
       IF ok
       THEN [reconnectCall EXCEPT !.pc = "returned", !.result = <<value>>]
       ELSE IF reconnectGate(error)
       THEN attemptReconnectLoop(
              [reconnectCall EXCEPT !.retryRejection = error], 1)
       ELSE [reconnectCall EXCEPT !.pc = "threw", !.retryRejection = error,
                                  !.thrown = error]
  /\ UNCHANGED << connectCall, forceCall, lastCall,
                  retryCall, batchCall, now >>
  /\ UNCHANGED adapterVars
  /\ UNCHANGED facadeVars
  /\ UNCHANGED classifyVars

\* the second operation() settles: its value is returned, its error thrown;
\* retryRejection records what the second operation() rejected with
ExecuteWithReconnectRetrySettle(ok, value, error) ==
  /\ reconnectCall.pc = "retrying"
  /\ reconnectCall' =
       IF ok
       THEN [reconnectCall EXCEPT !.pc = "returned", !.result = <<value>>]
       ELSE [reconnectCall EXCEPT !.pc = "threw", !.retryRejection = error,
                                  !.thrown = error]
  /\ UNCHANGED << connectCall, forceCall, lastCall,
                  retryCall, batchCall, now >>
  /\ UNCHANGED adapterVars
  /\ UNCHANGED facadeVars
  /\ UNCHANGED classifyVars

(***************************************************************************)
(* The connection lifecycle with executeWithReconnect: a caller that       *)
(* constructs an adapter and uses connect, disconnect, healthCheck,        *)
(* forceReconnect and an operation wrapped by executeWithReconnect, whose  *)
(* awaits interleave.                                                      *)
(***************************************************************************)
NoOptions ==
  [autoReconnect |-> Undef, maxReconnectAttempts |-> Undef,
   reconnectDelay |-> Undef, maxRetries |-> Undef, retryDelay |-> Undef,
   retryBackoffMultiplier |-> Undef]

ReconnectConfigs ==
  {NoOptions, [NoOptions EXCEPT !.autoReconnect = Some(FALSE)]}
  \cup {[NoOptions EXCEPT !.maxReconnectAttempts = Some(n),
                          !.reconnectDelay = Some(7)] : n \in 0..MaxReconnectArg}

NextReconnect ==
  \/ Construct
  \/ \E baseConfig \in ReconnectConfigs : InitConfig(baseConfig)
  \/ Tick
  \/ ConnectInvoke
  \/ \E ok \in BOOLEAN, err \in ConnectErrors : ConnectSettle(ok, err)
  \/ \E ok \in BOOLEAN, err \in CloseErrors : Disconnect(ok, err)
  \/ \E ok \in BOOLEAN, err \in PwdErrors : HealthCheck(ok, err)
  \/ \E ok \in BOOLEAN, err \in CloseErrors : ForceReconnectInvoke(ok, err)
  \/ \E ok \in BOOLEAN, err \in ConnectErrors : ForceReconnectSettle(ok, err)
  \/ ExecuteWithReconnectInvoke
  \/ \E value \in OperationValues : ExecuteWithReconnectResolve(value)
  \/ \E error \in OperationErrors : ExecuteWithReconnectCatch(error)
  \/ \E ok \in BOOLEAN, err \in ConnectErrors : AttemptReconnectSettle(ok, err)
  \/ AttemptReconnectWake
  \/ \E ok \in BOOLEAN, value \in OperationValues, error \in OperationErrors :
       ExecuteWithReconnectRetrySettle(ok, value, error)

SpecReconnect == Init /\ [][NextReconnect]_vars


(***************************************************************************)
(* executeWithRetry.                                                       *)
(***************************************************************************)
Invoked == [ev |-> "invoke", ms |-> 0]
Slept(ms) == [ev |-> "sleep", ms |-> ms]
Resolved(value) == [ok |-> TRUE, value |-> value, error |-> NoError]
Rejected(error) == [ok |-> FALSE, value |-> "", error |-> error]

\* mutant of executeWithRetryLoop: the loop runs while attempt < maxAttempts
executeWithRetryLoopShort(rc, attempt) ==
  IF attempt < rc.maxAttempts
  THEN [rc EXCEPT !.pc = "operation", !.attempt = attempt,
                  !.log = Append(@, Invoked)]
  ELSE [rc EXCEPT !.pc = "threw", !.attempt = attempt,
                  !.thrown = rc.lastError]

\* the head of the loop of executeWithRetry on a call record rc (line 245):
\* operation() is invoked, or the loop is over and lastError is thrown
\* (line 262)
executeWithRetryLoop(rc, attempt) ==
  IF attempt <= rc.maxAttempts
  THEN [rc EXCEPT !.pc = "operation", !.attempt = attempt,
                  !.log = Append(@, Invoked)]
  ELSE [rc EXCEPT !.pc = "threw", !.attempt = attempt,
                  !.thrown = rc.lastError]

\* mutant of giveUp: the classification of the error is not consulted
giveUpOnLastAttemptOnly(rc, error) == rc.attempt = rc.maxAttempts

\* mutant of giveUp: every error ends the call
giveUpAlways(rc, error) == TRUE

\* the condition under which the catch block rethrows (line 252)
giveUp(rc, error) == ~isRetryableError(error) \/ rc.attempt = rc.maxAttempts

\* mutant of nextDelay: the delay grows by addition
nextDelayAdditive(currentDelay, multiplier) == currentDelay + multiplier

\* currentDelay *= multiplier (line 258)
nextDelay(currentDelay, multiplier) == currentDelay * multiplier

\* executeWithRetry is called: the defaults are applied and the loop entered
ExecuteWithRetryInvoke(maxRetriesArg, retryDelayArg, backoffMultiplierArg) ==
  /\ constructed
  /\ retryCall.pc \in {"idle", "returned", "threw"}
  /\ LET maxAttempts == IF IsDefined(maxRetriesArg) THEN ValueOf(maxRetriesArg)
                        ELSE maxRetries
         initialDelay == IF IsDefined(retryDelayArg) THEN ValueOf(retryDelayArg)
                         ELSE retryDelay
         multiplier == IF IsDefined(backoffMultiplierArg)
                       THEN ValueOf(backoffMultiplierArg)
                       ELSE retryBackoffMultiplier
     IN  retryCall' =
           executeWithRetryLoop(
             [IdleRetryCall EXCEPT !.maxAttempts = maxAttempts,
                                   !.initialDelay = initialDelay,
                                   !.multiplier = multiplier,
                                   !.currentDelay = initialDelay], 0)
  /\ UNCHANGED << connectCall, forceCall, lastCall, reconnectCall, batchCall,
                  now >>
  /\ UNCHANGED adapterVars
  /\ UNCHANGED facadeVars
  /\ UNCHANGED classifyVars

\* operation() resolves with value, which executeWithRetry returns
ExecuteWithRetryResolve(value) ==
  /\ retryCall.pc = "operation"
  /\ retryCall' = [retryCall EXCEPT !.pc = "returned", !.result = <<value>>,
                                    !.outcomes = Append(@, Resolved(value))]
  /\ UNCHANGED << connectCall, forceCall, lastCall, reconnectCall, batchCall,
                  now >>
  /\ UNCHANGED adapterVars
  /\ UNCHANGED facadeVars
  /\ UNCHANGED classifyVars

\* mutant of ExecuteWithRetryCatch: a call that gives up marks the adapter
\* disconnected
ExecuteWithRetryCatchClearsConnected(error) ==
  /\ retryCall.pc = "operation"
  /\ LET caught == [retryCall EXCEPT !.lastError = error,
                                     !.outcomes = Append(@, Rejected(error))]
     IN  /\ retryCall' =
               IF giveUp(caught, error)
               THEN [caught EXCEPT !.pc = "threw", !.thrown = error]
               ELSE [caught EXCEPT !.pc = "sleeping",
                                   !.log = Append(@, Slept(caught.currentDelay))]
         /\ connected' = (connected /\ ~giveUp(caught, error))
  /\ UNCHANGED << connectCall, forceCall, lastCall, reconnectCall, batchCall,
                  now, hasConnectedBefore, lastActivity >>
  /\ UNCHANGED policyVars
  /\ UNCHANGED facadeVars
  /\ UNCHANGED classifyVars

\* operation() rejects with error: the catch block, up to its sleep
ExecuteWithRetryCatch(error) ==
  /\ retryCall.pc = "operation"
  /\ LET caught == [retryCall EXCEPT !.lastError = error,
                                     !.outcomes = Append(@, Rejected(error))]
     IN  retryCall' =
           IF giveUp(caught, error)
           THEN [caught EXCEPT !.pc = "threw", !.thrown = error]
           ELSE [caught EXCEPT !.pc = "sleeping",
                               !.log = Append(@, Slept(caught.currentDelay))]
  /\ UNCHANGED << connectCall, forceCall, lastCall, reconnectCall, batchCall,
                  now >>
  /\ UNCHANGED adapterVars
  /\ UNCHANGED facadeVars
  /\ UNCHANGED classifyVars

\* the sleep is over: the delay is multiplied and the loop goes on
ExecuteWithRetryWake ==
  /\ retryCall.pc = "sleeping"
  /\ retryCall' =
       executeWithRetryLoop(
         [retryCall EXCEPT
            !.currentDelay = nextDelay(retryCall.currentDelay,
                                       retryCall.multiplier)],
         retryCall.attempt + 1)
  /\ UNCHANGED << connectCall, forceCall, lastCall, reconnectCall, batchCall,
                  now >>
  /\ UNCHANGED adapterVars
  /\ UNCHANGED facadeVars
  /\ UNCHANGED classifyVars

\* a baseConfig that sets every numeric policy option to 0 and autoReconnect
\* to false
ZeroOptions ==
  [autoReconnect |-> Some(FALSE), maxReconnectAttempts |-> Some(0),
   reconnectDelay |-> Some(0), maxRetries |-> Some(0), retryDelay |-> Some(0),
   retryBackoffMultiplier |-> Some(0)]

RetryConfigs ==
  {NoOptions, ZeroOptions,
   [NoOptions EXCEPT !.maxRetries = Some(1), !.retryDelay = Some(5),
                     !.retryBackoffMultiplier = Some(3)]}

MaxRetriesArgs == {Undef} \cup {Some(n) : n \in (-1)..MaxRetryArg}
RetryDelayArgs == {Undef, Some(0), Some(10)}
BackoffMultiplierArgs == {Undef, Some(1), Some(3)}

NextRetry ==
  \/ Construct
  \/ \E baseConfig \in RetryConfigs : InitConfig(baseConfig)
  \/ \E m \in MaxRetriesArgs, d \in RetryDelayArgs, b \in BackoffMultiplierArgs :
       ExecuteWithRetryInvoke(m, d, b)
  \/ \E value \in OperationValues : ExecuteWithRetryResolve(value)
  \/ \E error \in OperationErrors : ExecuteWithRetryCatch(error)
  \/ ExecuteWithRetryWake

SpecRetry == Init /\ [][NextRetry]_vars


(***************************************************************************)
(* Properties of executeWithRetry, checked under SpecRetry.                *)
(***************************************************************************)
RECURSIVE Pow(_, _)
Pow(b, n) == IF n = 0 THEN 1 ELSE b * Pow(b, n - 1)

\* the number of times the current executeWithRetry call invoked operation()
RetryInvocations ==
  Cardinality({i \in DOMAIN retryCall.log : retryCall.log[i].ev = "invoke"})

\* the delays the current call slept, in order
RetrySleeps ==
  LET IsSleep(e) == e.ev = "sleep"
      entries == SelectSeq(retryCall.log, IsSleep)
  IN  [i \in 1..Len(entries) |-> entries[i].ms]

RetryEnded == retryCall.pc \in {"returned", "threw"}

RetryableFailure(o) == ~o.ok /\ isRetryableError(o.error)

\* C4: when the first failure of the operation is a non-retryable error
\* (and maxAttempts >= 0), executeWithRetry has invoked the operation exactly
\* once, has not slept, and has thrown that very error.
C4_NonRetryableOnce ==
  LET o == retryCall.outcomes
  IN  (/\ Len(o) >= 1
       /\ ~o[1].ok
       /\ ~isRetryableError(o[1].error)
       /\ retryCall.maxAttempts >= 0)
      => (/\ retryCall.pc = "threw"
          /\ retryCall.thrown = o[1].error
          /\ RetryInvocations = 1
          /\ Len(o) = 1
          /\ RetrySleeps = <<>>)

C4_Witness ==
  /\ retryCall.pc = "threw"
  /\ retryCall.maxAttempts = 2
  /\ retryCall.outcomes = <<Rejected(MkError(MsgFileNotFound))>>
  /\ RetryInvocations = 1

\* C5: after k retryable failures with k <= maxAttempts the call goes on to
\* attempt k+1, and when attempt k+1 succeeds the call returns the value of
\* that attempt, the operation having been invoked exactly k+1 times.
C5_RetryThenSuccess ==
  LET o == retryCall.outcomes
      n == Len(o)
  IN  /\ (/\ retryCall.pc # "idle"
          /\ \A i \in 1..n : RetryableFailure(o[i])
          /\ n <= retryCall.maxAttempts)
         => (/\ retryCall.pc \in {"operation", "sleeping"}
             /\ RetryInvocations \in {n, n + 1})
      /\ (n >= 1 /\ o[n].ok /\ (\A i \in 1..(n - 1) : RetryableFailure(o[i])))
         => (/\ retryCall.pc = "returned"
             /\ retryCall.result = <<o[n].value>>
             /\ RetryInvocations = n
             /\ n <= retryCall.maxAttempts + 1)

C5_Witness ==
  /\ retryCall.pc = "returned"
  /\ Len(retryCall.outcomes) = 3
  /\ RetryableFailure(retryCall.outcomes[1])
  /\ RetryableFailure(retryCall.outcomes[2])
  /\ retryCall.result = <<"success">>
  /\ RetryInvocations = 3

\* C6: the i-th sleep of a call lasts initialDelay * multiplier^(i-1); the
\* call alternates invocation and sleep, starting with an invocation, so
\* exactly one sleep lies between two consecutive invocations; and a call
\* that has ended has not slept after its last invocation.
C6_ExponentialBackoff ==
  LET log == retryCall.log
      sl == RetrySleeps
  IN  /\ \A i \in 1..Len(sl) :
           sl[i] = retryCall.initialDelay * Pow(retryCall.multiplier, i - 1)
      /\ \A i \in DOMAIN log :
           log[i].ev = (IF i % 2 = 1 THEN "invoke" ELSE "sleep")
      /\ (RetryEnded /\ log # <<>>) => log[Len(log)].ev = "invoke"
      /\ (retryCall.pc = "sleeping") <=> (log # <<>> /\ log[Len(log)].ev = "sleep")

C6_Witness ==
  /\ RetryEnded
  /\ retryCall.initialDelay = 10
  /\ retryCall.multiplier = 3
  /\ RetrySleeps = <<10, 30>>
  /\ RetryInvocations = 3

\* C7: the operation is never invoked more than maxAttempts+1 times; a call
\* whose every invocation failed with a retryable error has, once it ended,
\* invoked the operation exactly maxAttempts+1 times and thrown the error of
\* its last invocation itself.
C7_BoundedAttempts ==
  LET o == retryCall.outcomes
      n == Len(o)
  IN  /\ RetryInvocations <= (IF retryCall.maxAttempts >= 0
                              THEN retryCall.maxAttempts + 1 ELSE 0)
      /\ (RetryEnded /\ n >= 1 /\ (\A i \in 1..n : RetryableFailure(o[i])))
         => (/\ retryCall.pc = "threw"
             /\ RetryInvocations = retryCall.maxAttempts + 1
             /\ n = retryCall.maxAttempts + 1
             /\ retryCall.thrown = o[n].error)

C7_Witness ==
  /\ retryCall.pc = "threw"
  /\ retryCall.maxAttempts = 2
  /\ Len(retryCall.outcomes) = 3
  /\ \A i \in 1..3 : RetryableFailure(retryCall.outcomes[i])
  /\ retryCall.thrown = MkError(MsgSocketHangUp)



\* the value an option gets when a default applies to unspecified options
\* only
Supplied(o, d) == IF IsDefined(o) THEN ValueOf(o) ELSE d

\* C35 as stated: initConfig stores every supplied policy value unchanged,
\* 0 and false included, and applies the default (true, 3, 1000, 3, 1000,
\* 2) only to an option that is unspecified.
C35_InitConfigKeepsSuppliedValues ==
  [][\A baseConfig \in RetryConfigs :
       InitConfig(baseConfig)
       => (/\ autoReconnect' = Supplied(baseConfig.autoReconnect, TRUE)
           /\ maxReconnectAttempts' =
                Supplied(baseConfig.maxReconnectAttempts,
                         DefaultMaxReconnectAttempts)
           /\ reconnectDelay' =
                Supplied(baseConfig.reconnectDelay, DefaultReconnectDelay)
           /\ maxRetries' = Supplied(baseConfig.maxRetries, DefaultMaxRetries)
           /\ retryDelay' = Supplied(baseConfig.retryDelay, DefaultRetryDelay)
           /\ retryBackoffMultiplier' =
                Supplied(baseConfig.retryBackoffMultiplier,
                         DefaultRetryBackoffMultiplier))]_vars

(***************************************************************************)
(* Properties of the connection lifecycle, checked under SpecReconnect.    *)
(***************************************************************************)
\* a step in which a connect() call finishes successfully
SuccessfulConnectStep ==
  \E err \in ConnectErrors :
    \/ ConnectSettle(TRUE, err)
    \/ ForceReconnectSettle(TRUE, err)
    \/ AttemptReconnectSettle(TRUE, err)

\* a step in which a connect() call fails
FailedConnectStep ==
  \E err \in ConnectErrors :
    \/ ConnectSettle(FALSE, err)
    \/ ForceReconnectSettle(FALSE, err)
    \/ AttemptReconnectSettle(FALSE, err)

\* C8: hasConnectedBefore is false initially; it never goes from true to
\* false; it goes from false to true only in a step that completes a
\* successful connect(), every successful connect() leaves it true and a
\* failed connect() leaves it as it was, whatever disconnect, healthCheck,
\* attemptReconnect and forceReconnect do in between.
C8_HasConnectedBeforeMonotonic ==
  /\ hasConnectedBefore = FALSE
  /\ [][/\ hasConnectedBefore => hasConnectedBefore'
        /\ (~hasConnectedBefore /\ hasConnectedBefore') => SuccessfulConnectStep
        /\ SuccessfulConnectStep => hasConnectedBefore'
        /\ FailedConnectStep => (hasConnectedBefore' = hasConnectedBefore)]_vars

\* the flag is still set after a disconnect and a failed connect()
C8_Witness ==
  /\ hasConnectedBefore
  /\ ~connected
  /\ lastCall.op = "connect"
  /\ lastCall.outcome = "threw"

\* C9 as stated: whenever the catch block of executeWithReconnect evaluated
\* shouldAttemptReconnect(error) on an adapter whose hasConnectedBefore was
\* false, shouldAttemptReconnect returned false.
C9_ShouldAttemptReconnectReadsHistory ==
  (reconnectCall.gate.evaluated /\ ~reconnectCall.gate.before)
  => ~reconnectCall.gate.should

\* C9 as amended: whenever hasConnectedBefore is false, the reconnect
\* condition of executeWithReconnect, shouldAttemptReconnect(error) &&
\* hasConnectedBefore, is false, whatever the error and the autoReconnect
\* setting (shouldAttemptReconnect alone does not read hasConnectedBefore).
C9_ReconnectConditionReadsHistory ==
  (reconnectCall.gate.evaluated /\ ~reconnectCall.gate.before)
  => ~reconnectCall.gate.reconnect

C9_Witness ==
  /\ reconnectCall.gate.evaluated
  /\ ~reconnectCall.gate.before
  /\ reconnectCall.gate.should
  /\ ~reconnectCall.gate.reconnect
  /\ autoReconnect

\* C10: on an adapter that never connected, with autoReconnect on, an
\* operation that fails with a reconnect-eligible message makes
\* executeWithReconnect throw that very error after one invocation of the
\* operation and without any connect() call.
C10_NoReconnectBeforeFirstConnect ==
  (/\ reconnectCall.gate.evaluated
   /\ ~reconnectCall.gate.before
   /\ autoReconnect
   /\ matchesReconnectable(reconnectCall.caught))
  => (/\ reconnectCall.pc = "threw"
      /\ reconnectCall.thrown = reconnectCall.caught
      /\ reconnectCall.opCalls = 1
      /\ reconnectCall.connects = 0
      /\ reconnectCall.sleeps = <<>>)

C10_Witness ==
  /\ reconnectCall.pc = "threw"
  /\ ~hasConnectedBefore
  /\ autoReconnect
  /\ reconnectCall.caught = MkError(MsgSocketHangUp)
  /\ reconnectCall.thrown = MkError(MsgSocketHangUp)
  /\ reconnectCall.gate.should


\* attemptReconnect ran in the current executeWithReconnect call
AttemptReconnectRan == reconnectCall.gate.reconnect

\* attemptReconnect threw: the call ended without a second operation()
AttemptReconnectThrew ==
  /\ AttemptReconnectRan
  /\ reconnectCall.pc = "threw"
  /\ reconnectCall.opCalls = 1

\* attemptReconnect returned: the operation was invoked a second time
AttemptReconnectReturned ==
  /\ AttemptReconnectRan
  /\ reconnectCall.opCalls = 2

\* C11: attemptReconnect makes at most maxReconnectAttempts connect() calls;
\* only the last connect() of a run can have succeeded, and once it has the
\* run is over with no connect() pending; when attemptReconnect throws, it
\* has made exactly maxReconnectAttempts connect() calls and all failed.
C11_BoundedReconnectAttempts ==
  LET log == reconnectCall.connectLog
  IN  /\ reconnectCall.connects <= maxReconnectAttempts
      /\ Len(log) <= reconnectCall.connects
      /\ \A i \in 1..(Len(log) - 1) : log[i] # NoError
      /\ (Len(log) > 0 /\ log[Len(log)] = NoError)
           => (/\ reconnectCall.connects = Len(log)
               /\ reconnectCall.pc \in {"retrying", "returned", "threw"}
               /\ AttemptReconnectReturned)
      /\ AttemptReconnectReturned
           => (Len(log) > 0 /\ log[Len(log)] = NoError)
      /\ AttemptReconnectThrew
           => (/\ reconnectCall.connects = maxReconnectAttempts
               /\ Len(log) = maxReconnectAttempts
               /\ \A i \in 1..Len(log) : log[i] # NoError)

\* maxReconnectAttempts = 3 and three failed connect() calls, then an error
C11_Witness ==
  /\ AttemptReconnectThrew
  /\ maxReconnectAttempts = 3
  /\ reconnectCall.connects = 3
  /\ Len(reconnectCall.connectLog) = 3

\* C12: when attemptReconnect is exhausted inside executeWithReconnect, the
\* call throws an Error whose message is "Failed to reconnect after N
\* attempts: " followed by the message of the last failed connect(); it is
\* not the error the operation rejected with, and the operation was invoked
\* once only.
C12_ExhaustionThrowsReconnectError ==
  AttemptReconnectThrew
  => LET log == reconnectCall.connectLog
         last == log[Len(log)]
     IN  /\ reconnectCall.thrown.kind = "Error"
         /\ reconnectCall.thrown.text =
              PrefixFailedToReconnect \o NumberToString(maxReconnectAttempts)
              \o SuffixAttempts \o last.text
         /\ last.kind = "Error"
         /\ reconnectCall.thrown # reconnectCall.caught
         /\ reconnectCall.thrown \notin OperationErrors
         /\ reconnectCall.opCalls = 1
         /\ reconnectCall.result = <<>>

\* exhaustion after two attempts whose connect() failed differently
C12_Witness ==
  /\ AttemptReconnectThrew
  /\ maxReconnectAttempts = 2
  /\ reconnectCall.caught = MkError(MsgConnectionReset)
  /\ reconnectCall.connectLog[1] # reconnectCall.connectLog[2]
  /\ reconnectCall.connectLog[2] =
       MkError(PrefixFailedToConnect \o MsgConnectionTimeout)

\* C13: within one executeWithReconnect call the operation is invoked at
\* most twice; attemptReconnect runs only before the second invocation, which
\* happens only after a connect() of attemptReconnect succeeded; when the
\* second invocation fails the call throws that very error, whatever it is,
\* with no further connect() and no further invocation.
C13_SingleRecoveryThenRetry ==
  LET log == reconnectCall.connectLog
  IN  /\ reconnectCall.opCalls <= 2
      /\ reconnectCall.pc \in {"connecting", "sleeping"}
           => (reconnectCall.opCalls = 1 /\ AttemptReconnectRan)
      /\ reconnectCall.opCalls = 2
           => (/\ AttemptReconnectRan
               /\ Len(log) = reconnectCall.connects
               /\ Len(log) > 0
               /\ log[Len(log)] = NoError
               /\ reconnectCall.pc \in {"retrying", "returned", "threw"})
      /\ reconnectCall.retryRejection # NoError
           => (/\ reconnectCall.pc = "threw"
               /\ reconnectCall.opCalls = 2
               /\ reconnectCall.thrown = reconnectCall.retryRejection)

\* the second invocation failed with a reconnect-eligible error, on an
\* adapter that is disconnected again
C13_Witness ==
  /\ reconnectCall.pc = "threw"
  /\ reconnectCall.opCalls = 2
  /\ reconnectCall.retryRejection = MkError(MsgSocketHangUp)
  /\ ~connected
  /\ autoReconnect
  /\ hasConnectedBefore


\* C14 as stated: a connect() called while connected = TRUE does not invoke
\* the connect primitive.
C14_ConnectIsNoOpWhenConnected ==
  connectCall.calledConnected => connectCall.accessCalls = 0

\* C14 as amended: BaseAdapter.connect() has no already-connected check; a
\* connect() called while connected = TRUE invokes the connect primitive once,
\* and when the primitive settles on the still connected adapter, a success
\* leaves connected and hasConnectedBefore as they were and the call returns,
\* while a failure sets connected to FALSE and the call throws.
C14_ConnectInvokesPrimitiveWhenConnected ==
  /\ [](connectCall.calledConnected => connectCall.accessCalls = 1)
  /\ [][\A ok \in BOOLEAN, err \in ConnectErrors :
          (connected /\ connectCall.calledConnected /\ ConnectSettle(ok, err))
          => IF ok
             THEN /\ connected'
                  /\ hasConnectedBefore' = hasConnectedBefore
                  /\ lastCall'.outcome = "returned"
             ELSE /\ ~connected'
                  /\ hasConnectedBefore' = hasConnectedBefore
                  /\ lastCall'.outcome = "threw"]_vars

\* the connect primitive is running for a connect() called on a connected
\* adapter
C14_Witness ==
  /\ connectCall.pc = "pending"
  /\ connectCall.calledConnected
  /\ connectCall.accessCalls = 1
  /\ connected

\* C16: a connect() whose primitive fails has invoked the primitive once,
\* ends with that failure (no second attempt), leaves connected = FALSE and
\* hasConnectedBefore as it was, and throws "Failed to connect to FTP
\* server: " followed by the message of the failure.
C16_FailingConnect ==
  [][\A err \in ConnectErrors :
       ConnectSettle(FALSE, err)
       => /\ connectCall.accessCalls = 1
          /\ connectCall'.pc = "idle"
          /\ ~connected'
          /\ hasConnectedBefore' = hasConnectedBefore
          /\ lastCall'.op = "connect"
          /\ lastCall'.outcome = "threw"
          /\ lastCall'.thrown = MkError(PrefixFailedToConnect \o err.text)]_vars

\* a first connect() failed: the adapter has never been connected
C16_Witness ==
  /\ lastCall.op = "connect"
  /\ lastCall.outcome = "threw"
  /\ lastCall.thrown = MkError(PrefixFailedToConnect \o MsgConnectionTimeout)
  /\ ~connected
  /\ ~hasConnectedBefore
  /\ connectCall.pc = "idle"

\* C17 as stated: every disconnect() call, whether it returns or throws,
\* ends in a state where connected is FALSE.
C17_DisconnectAlwaysClearsConnected ==
  [][\A closeOk \in BOOLEAN, err \in CloseErrors :
       Disconnect(closeOk, err) => ~connected']_vars

\* C18: healthCheck() never throws; on a connected adapter whose pwd round
\* trip succeeds it returns true and leaves connected TRUE; when the round
\* trip fails, or the adapter is not connected, it returns false and
\* connected is FALSE afterwards.
C18_HealthCheckNeverThrows ==
  [][\A pwdOk \in BOOLEAN, err \in PwdErrors :
       HealthCheck(pwdOk, err)
       => /\ lastCall'.op = "healthCheck"
          /\ lastCall'.thrown = NoError
          /\ hasConnectedBefore' = hasConnectedBefore
          /\ IF connected /\ pwdOk
             THEN lastCall'.outcome = "true" /\ connected'
             ELSE lastCall'.outcome = "false" /\ ~connected']_vars

\* a healthCheck() found the session of a connected adapter broken
C18_Witness ==
  /\ lastCall.op = "healthCheck"
  /\ lastCall.outcome = "false"
  /\ ~connected
  /\ hasConnectedBefore
  /\ reconnectCall.pc = "idle"
  /\ forceCall.pc = "idle"

\* C19 as stated: a forceReconnect() called on a connected adapter invokes
\* the close primitive and then invokes the connect primitive, and when that
\* connect succeeds the adapter is connected.
C19_ForceReconnectClosesThenConnects ==
  [][/\ \A closeOk \in BOOLEAN, err \in CloseErrors :
          (connected /\ ForceReconnectInvoke(closeOk, err))
          => forceCall'.pc = "connecting"
     /\ \A err \in ConnectErrors :
          ForceReconnectSettle(TRUE, err) => connected']_vars



\* C24: attemptReconnect backs off linearly: the sleep after the failed
\* attempt number i is reconnectDelay * i, it is slept before attempt i + 1
\* is made, and there is a sleep after every failed attempt except the last
\* allowed one, and none after an attempt that succeeded.
C24_LinearReconnectBackoff ==
  LET log == reconnectCall.connectLog
      sleeps == reconnectCall.sleeps
  IN  /\ \A i \in 1..Len(sleeps) : sleeps[i] = reconnectDelay * i
      /\ Len(sleeps) =
           Cardinality({i \in 1..Len(log) :
                          log[i] # NoError /\ i < maxReconnectAttempts})
      /\ reconnectCall.pc = "sleeping"
           => (/\ Len(sleeps) = reconnectCall.attempt
               /\ Len(log) = reconnectCall.attempt
               /\ reconnectCall.connects = reconnectCall.attempt)
      /\ reconnectCall.pc = "connecting"
           => (/\ Len(sleeps) = reconnectCall.attempt - 1
               /\ reconnectCall.connects = reconnectCall.attempt)

\* three attempts failed: one delay was slept after the first, two after
\* the second, and the third was followed by the throw
C24_Witness ==
  /\ AttemptReconnectThrew
  /\ maxReconnectAttempts = 3
  /\ Len(reconnectCall.connectLog) = 3
  /\ reconnectCall.sleeps = << reconnectDelay, 2 * reconnectDelay >>


\* the error says that the session is gone: its message holds "connection
\* closed", "connection reset" or "connection lost"
SessionFailure(error) ==
  \E i \in 1..3 :
    Includes(ToLowerCase(MessageOf(error)), reconnectableErrors[i])

\* C26 as stated: connected = true implies that the session has not failed:
\* when the operation of an executeWithReconnect call has failed because
\* the connection was closed, reset or lost, connected is false from the
\* handling of that failure on, before a further operation is attempted.
C26_ConnectedImpliesLiveSession ==
  [][\A error \in OperationErrors :
       (/\ SessionFailure(error)
        /\ \/ ExecuteWithReconnectCatch(error)
           \/ \E value \in OperationValues :
                ExecuteWithReconnectRetrySettle(FALSE, value, error))
       => ~connected']_vars


\* C27 as stated: every operation attempted through executeWithReconnect or
\* healthCheck brings lastActivity up to the clock, whether the primitive it
\* wraps then succeeds or fails, and lastActivity never moves backwards.
C27_ActivityOnEveryAttempt ==
  [][/\ lastActivity' >= lastActivity
     /\ ExecuteWithReconnectInvoke => lastActivity' = now
     /\ \A pwdOk \in BOOLEAN, err \in PwdErrors :
          HealthCheck(pwdOk, err) => lastActivity' = now]_vars


\* C29: when the operation of an executeWithReconnect call fails while
\* autoReconnect is false, or while connected is still true, the call makes
\* no connect() and no attemptReconnect whatever the message of the error:
\* it ends with the operation invoked once and throws the error it caught.
C29_ReconnectGating ==
  [][\A error \in OperationErrors :
       (/\ ~autoReconnect \/ connected
        /\ ExecuteWithReconnectCatch(error))
       => (/\ reconnectCall'.pc = "threw"
           /\ reconnectCall'.thrown = error
           /\ reconnectCall'.opCalls = 1
           /\ reconnectCall'.connects = 0
           /\ reconnectCall'.connectLog = <<>>
           /\ ~reconnectCall'.gate.reconnect
           /\ connected' = connected
           /\ hasConnectedBefore' = hasConnectedBefore)]_vars

\* an adapter that has connected before threw a reconnect-eligible error
\* on without reconnecting
C29_Witness ==
  /\ reconnectCall.pc = "threw"
  /\ reconnectCall.gate.evaluated
  /\ reconnectCall.gate.before
  /\ ~reconnectCall.gate.should
  /\ matchesReconnectable(reconnectCall.caught)
  /\ reconnectCall.thrown = reconnectCall.caught
  /\ reconnectCall.opCalls = 1
  /\ reconnectCall.connects = 0


Upload(n) == [type |-> "upload", localPath |-> n, remotePath |-> n]
Download(n) == [type |-> "download", localPath |-> n, remotePath |-> n]

NoResult ==
  [transfer |-> 0, request |-> Upload(0), success |-> FALSE,
   error |-> NoError, duration |-> 0]

\* resolved and rejection record how the upload or download itself ended
PendingTask ==
  [state |-> "pending", invoked |-> "none", startTime |-> 0,
   resolved |-> FALSE, rejection |-> NoError, result |-> NoResult]

\* Array.prototype.indexOf, from 0, -1 when x is absent
IndexOf(seq, x) ==
  IF \E i \in DOMAIN seq : seq[i] = x
  THEN (CHOOSE i \in DOMAIN seq : seq[i] = x /\ \A k \in 1..(i - 1) : seq[k] # x) - 1
  ELSE -1

\* seq.splice(start, 1): a negative start counts from the end
Splice1(seq, start) ==
  LET from == IF start < 0
              THEN (IF Len(seq) + start < 0 THEN 0 ELSE Len(seq) + start)
              ELSE (IF start > Len(seq) THEN Len(seq) ELSE start)
  IN  SubSeq(seq, 1, from) \o SubSeq(seq, from + 2, Len(seq))

Range(seq) == {seq[i] : i \in DOMAIN seq}

\* mutant of executeTransfer: a failure is reported as a success
executeTransferHidesFailure(j, request, startTime, ok, err) ==
  [transfer |-> j, request |-> request, success |-> TRUE,
   error |-> NoError, duration |-> now - startTime]

\* BaseAdapter.executeTransfer from the moment its upload or download
\* settles: the result it returns.  ok: the transfer resolved; otherwise it
\* rejected with err.
executeTransfer(j, request, startTime, ok, err) ==
  IF ok
  THEN [transfer |-> j, request |-> request, success |-> TRUE,
        error |-> NoError, duration |-> now - startTime]
  ELSE [transfer |-> j, request |-> request, success |-> FALSE,
        error |-> IF err.kind = "Error" THEN err ELSE MkError(StringOf(err)),
        duration |-> now - startTime]

\* mutant of admissionFull: one transfer more than maxConcurrency is admitted
admissionFullOffByOne(executing, maxConcurrency) ==
  Len(executing) > maxConcurrency

\* the test that makes the loop await Promise.race (line 399)
admissionFull(executing, maxConcurrency) == Len(executing) >= maxConcurrency

\* mutant of batchTransferLoop: the pool is tested before a transfer is
\* started (`while (executing.length >= maxConcurrency) await
\* Promise.race(executing)` at the top of the loop body)
RECURSIVE batchTransferLoopTestsFirst(_, _)
batchTransferLoopTestsFirst(bc, i) ==
  IF i > Len(bc.transfers)
  THEN [bc EXCEPT !.pc = "all", !.next = i, !.waitingOn = Range(bc.executing)]
  ELSE IF admissionFull(bc.executing, bc.maxConcurrency)
       THEN [bc EXCEPT !.pc = "race", !.next = i,
                       !.waitingOn = Range(bc.executing)]
       ELSE batchTransferLoopTestsFirst(
              [bc EXCEPT
                 !.tasks[i] = [state |-> "running",
                               invoked |-> IF bc.transfers[i].type = "upload"
                                           THEN "upload" ELSE "download",
                               startTime |-> now,
                               resolved |-> FALSE,
                               rejection |-> NoError,
                               result |-> NoResult],
                 !.executing = Append(@, i)], i + 1)

\* the loop of batchTransfer from request i on a call record bc, up to its
\* next await: transfers are started and their promises pushed until
\* `executing` is full (await Promise.race(executing)) or the list is
\* exhausted (await Promise.all(executing))
RECURSIVE batchTransferLoop(_, _)
batchTransferLoop(bc, i) ==
  IF i > Len(bc.transfers)
  THEN [bc EXCEPT !.pc = "all", !.next = i, !.waitingOn = Range(bc.executing)]
  ELSE LET started ==
             [bc EXCEPT
                !.tasks[i] = [state |-> "running",
                              invoked |-> IF bc.transfers[i].type = "upload"
                                          THEN "upload" ELSE "download",
                              startTime |-> now,
                              resolved |-> FALSE,
                              rejection |-> NoError,
                              result |-> NoResult],
                !.executing = Append(@, i)]
       IN  IF admissionFull(started.executing, started.maxConcurrency)
           THEN [started EXCEPT !.pc = "race", !.next = i + 1,
                                !.waitingOn = Range(started.executing)]
           ELSE batchTransferLoop(started, i + 1)

\* mutant of allResolved: batchTransfer returns when one promise resolved
allResolvedAny(bc) ==
  \/ bc.waitingOn = {}
  \/ \E j \in bc.waitingOn : bc.tasks[j].state = "done"

\* Promise.all(executing) of line 404 has resolved
allResolved(bc) == \A j \in bc.waitingOn : bc.tasks[j].state = "done"

\* mutant of raceResolved: the loop waits for the oldest promise of
\* `executing`
raceResolvedOldest(bc) ==
  /\ bc.waitingOn # {}
  /\ bc.tasks[CHOOSE j \in bc.waitingOn :
                \A k \in bc.waitingOn : j <= k].state = "done"

\* Promise.race(executing) of line 400 has resolved
raceResolved(bc) == \E j \in bc.waitingOn : bc.tasks[j].state = "done"

\* mutant of BatchTransferInvoke: ensureConnected() runs inside the loop, so
\* a call with nothing to transfer never reaches it
BatchTransferInvokeChecksLate(transfers, maxConcurrencyArg) ==
  /\ constructed
  /\ batchCall.pc \in {"idle", "threw"}
  /\ batchCall' =
       IF ~connected /\ transfers # <<>>
       THEN [IdleBatchCall EXCEPT !.pc = "threw",
                                  !.transfers = transfers,
                                  !.thrown = MkError(MsgNotConnected)]
       ELSE batchTransferLoop(
              [IdleBatchCall EXCEPT
                 !.transfers = transfers,
                 !.maxConcurrency = IF IsDefined(maxConcurrencyArg)
                                    THEN ValueOf(maxConcurrencyArg)
                                    ELSE DefaultMaxConcurrency,
                 !.tasks = [j \in 1..Len(transfers) |-> PendingTask]], 1)
  /\ UNCHANGED << connectCall, forceCall, lastCall, reconnectCall, retryCall,
                  now >>
  /\ UNCHANGED adapterVars
  /\ UNCHANGED facadeVars
  /\ UNCHANGED classifyVars

\* mutant of BatchTransferInvoke: batchTransfer without the ensureConnected()
\* call of line 386
BatchTransferInvokeUnchecked(transfers, maxConcurrencyArg) ==
  /\ constructed
  /\ batchCall.pc \in {"idle", "threw"}
  /\ batchCall' =
       batchTransferLoop(
         [IdleBatchCall EXCEPT
            !.transfers = transfers,
            !.maxConcurrency = IF IsDefined(maxConcurrencyArg)
                               THEN ValueOf(maxConcurrencyArg)
                               ELSE DefaultMaxConcurrency,
            !.tasks = [j \in 1..Len(transfers) |-> PendingTask]], 1)
  /\ UNCHANGED << connectCall, forceCall, lastCall, reconnectCall, retryCall,
                  now >>
  /\ UNCHANGED adapterVars
  /\ UNCHANGED facadeVars
  /\ UNCHANGED classifyVars

\* batchTransfer is called: ensureConnected(), then the loop up to its
\* first await
BatchTransferInvoke(transfers, maxConcurrencyArg) ==
  /\ constructed
  /\ batchCall.pc \in {"idle", "threw"}
  /\ batchCall' =
       IF ~connected
       THEN [IdleBatchCall EXCEPT !.pc = "threw",
                                  !.transfers = transfers,
                                  !.thrown = MkError(MsgNotConnected)]
       ELSE batchTransferLoop(
              [IdleBatchCall EXCEPT
                 !.transfers = transfers,
                 !.maxConcurrency = IF IsDefined(maxConcurrencyArg)
                                    THEN ValueOf(maxConcurrencyArg)
                                    ELSE DefaultMaxConcurrency,
                 !.tasks = [j \in 1..Len(transfers) |-> PendingTask]], 1)
  /\ UNCHANGED << connectCall, forceCall, lastCall, reconnectCall, retryCall,
                  now >>
  /\ UNCHANGED adapterVars
  /\ UNCHANGED facadeVars
  /\ UNCHANGED classifyVars

\* the upload or download of transfer j settles and executeTransfer returns;
\* settleOrder lists the transfers in the order in which this happened
TransferSettle(j, ok, err) ==
  /\ j \in DOMAIN batchCall.tasks
  /\ batchCall.tasks[j].state = "running"
  /\ batchCall' =
       [batchCall EXCEPT
          !.tasks[j].state = "settled",
          !.settleOrder = Append(@, j),
          !.tasks[j].resolved = ok,
          !.tasks[j].rejection = IF ok THEN NoError ELSE err,
          !.tasks[j].result =
             executeTransfer(j, batchCall.transfers[j],
                             batchCall.tasks[j].startTime, ok, err)]
  /\ UNCHANGED << connectCall, forceCall, lastCall, reconnectCall, retryCall,
                  now >>
  /\ UNCHANGED adapterVars
  /\ UNCHANGED facadeVars
  /\ UNCHANGED classifyVars

\* mutant of TransferThen: the result is stored at the place of its request,
\* so the list is kept in submission order
TransferThenBySubmission(j) ==
  /\ j \in DOMAIN batchCall.tasks
  /\ batchCall.tasks[j].state = "settled"
  /\ batchCall.settleOrder[Len(batchCall.results) + 1] = j
  /\ LET Before(r) == r.transfer < j
         After(r) == r.transfer > j
     IN  batchCall' =
           [batchCall EXCEPT
              !.tasks[j].state = "done",
              !.results = SelectSeq(@, Before)
                            \o << batchCall.tasks[j].result >>
                            \o SelectSeq(@, After),
              !.executing = Splice1(@, IndexOf(@, j))]
  /\ UNCHANGED << connectCall, forceCall, lastCall, reconnectCall, retryCall,
                  now >>
  /\ UNCHANGED adapterVars
  /\ UNCHANGED facadeVars
  /\ UNCHANGED classifyVars

\* the callback of lines 392-395 runs for transfer j: the callbacks are
\* jobs of the promise job queue, which runs them in the order in which
\* their promises resolved
TransferThen(j) ==
  /\ j \in DOMAIN batchCall.tasks
  /\ batchCall.tasks[j].state = "settled"
  /\ batchCall.settleOrder[Len(batchCall.results) + 1] = j
  /\ batchCall' =
       [batchCall EXCEPT
          !.tasks[j].state = "done",
          !.results = Append(@, batchCall.tasks[j].result),
          !.executing = Splice1(@, IndexOf(@, j))]
  /\ UNCHANGED << connectCall, forceCall, lastCall, reconnectCall, retryCall,
                  now >>
  /\ UNCHANGED adapterVars
  /\ UNCHANGED facadeVars
  /\ UNCHANGED classifyVars

\* mutant of BatchTransferRaceResume: the loop goes on without waiting for a
\* promise of `executing` to resolve
BatchTransferRaceResumeEarly ==
  /\ batchCall.pc = "race"
  /\ batchCall' = batchTransferLoop(batchCall, batchCall.next)
  /\ UNCHANGED << connectCall, forceCall, lastCall, reconnectCall, retryCall,
                  now >>
  /\ UNCHANGED adapterVars
  /\ UNCHANGED facadeVars
  /\ UNCHANGED classifyVars

\* await Promise.race(executing) resumes and the loop goes on
BatchTransferRaceResume ==
  /\ batchCall.pc = "race"
  /\ raceResolved(batchCall)
  /\ batchCall' = batchTransferLoop(batchCall, batchCall.next)
  /\ UNCHANGED << connectCall, forceCall, lastCall, reconnectCall, retryCall,
                  now >>
  /\ UNCHANGED adapterVars
  /\ UNCHANGED facadeVars
  /\ UNCHANGED classifyVars

\* await Promise.all(executing) resumes and batchTransfer returns results
BatchTransferReturn ==
  /\ batchCall.pc = "all"
  /\ allResolved(batchCall)
  /\ batchCall' = [batchCall EXCEPT !.pc = "returned"]
  /\ UNCHANGED << connectCall, forceCall, lastCall, reconnectCall, retryCall,
                  now >>
  /\ UNCHANGED adapterVars
  /\ UNCHANGED facadeVars
  /\ UNCHANGED classifyVars

\* the request lists handed to batchTransfer: up to MaxTransfers requests,
\* all of them uploads, or uploads and downloads in turn
TransferLists ==
  {[j \in 1..n |-> IF uploads \/ j % 2 = 1 THEN Upload(j) ELSE Download(j)] :
     n \in 0..MaxTransfers, uploads \in BOOLEAN}

\* the maxConcurrency arguments: omitted, negative, zero and 1..MaxConcurrency
MaxConcurrencyArgs == {Undef} \cup {Some(k) : k \in (-1)..MaxConcurrency}

\* what an upload or download rejects with
TransferErrors == { MkError(MsgFileNotFound), MkValue(MsgEconnreset) }

\* no batchTransfer call has got past ensureConnected yet
BatchQuiet == batchCall.pc \in {"idle", "threw"}

\* batchTransfer calls on an adapter whose caller connects and disconnects
\* it before the call that gets past ensureConnected, which is followed to
\* its return: a running batch reads no connection state (ensureConnected
\* is evaluated once, at line 386), and what a lost connection does to a
\* running transfer is one of the outcomes of TransferSettle.
NextBatch ==
  \/ Construct
  \/ BatchQuiet /\ ConnectInvoke
  \/ \E ok \in BOOLEAN, err \in ConnectErrors : ConnectSettle(ok, err)
  \/ \E ok \in BOOLEAN, err \in CloseErrors : BatchQuiet /\ Disconnect(ok, err)
  \/ \E transfers \in TransferLists, k \in MaxConcurrencyArgs :
       BatchTransferInvoke(transfers, k)
  \/ \E j \in 1..(MaxTransfers + 1), ok \in BOOLEAN, err \in TransferErrors :
       TransferSettle(j, ok, err)
  \/ \E j \in 1..(MaxTransfers + 1) : TransferThen(j)
  \/ BatchTransferRaceResume
  \/ BatchTransferReturn

SpecBatch == Init /\ [][NextBatch]_vars


(***************************************************************************)
(* Properties of batchTransfer, checked under SpecBatch.                   *)
(***************************************************************************)
\* the transfers whose upload or download was invoked and has not settled
InFlight ==
  {j \in DOMAIN batchCall.tasks : batchCall.tasks[j].state = "running"}

\* C1: with maxConcurrency K >= 1, at no point of a batchTransfer call are
\* more than K transfers started and not yet completed (nor more than K
\* promises kept in `executing`), whatever the order of the completions.
C1_AtMostKInFlight ==
  (batchCall.pc # "idle" /\ batchCall.maxConcurrency >= 1)
  => (/\ Cardinality(InFlight) <= batchCall.maxConcurrency
      /\ Len(batchCall.executing) <= batchCall.maxConcurrency)

\* K transfers in flight, one already completed, one still to be admitted
C1_Witness ==
  /\ batchCall.pc = "race"
  /\ batchCall.maxConcurrency = 2
  /\ Len(batchCall.transfers) >= 3
  /\ Cardinality(InFlight) = 2
  /\ \E j \in DOMAIN batchCall.tasks : batchCall.tasks[j].state = "done"

\* C2: the list batchTransfer returns has one result per submitted request:
\* as many results as requests, and every request is the `transfer` of
\* exactly one result.
C2_OneResultPerRequest ==
  batchCall.pc = "returned"
  => (/\ Len(batchCall.results) = Len(batchCall.transfers)
      /\ \A j \in DOMAIN batchCall.transfers :
           /\ Cardinality({i \in DOMAIN batchCall.results :
                             batchCall.results[i].transfer = j}) = 1
           /\ \A i \in DOMAIN batchCall.results :
                batchCall.results[i].transfer = j
                => batchCall.results[i].request = batchCall.transfers[j])

\* three requests returned out of submission order, one of them failed
C2_Witness ==
  /\ batchCall.pc = "returned"
  /\ Len(batchCall.transfers) = 3
  /\ Len(batchCall.results) = 3
  /\ batchCall.results[1].transfer = 2
  /\ \E i \in 1..3 : ~batchCall.results[i].success

\* C3: a batchTransfer call throws only from ensureConnected, before any
\* transfer is started; every result reports how its transfer ended,
\* success=false with an Error for a transfer that rejected (the rejection
\* itself when that is an Error) and success=true without error for one that
\* resolved; and when the call returns every transfer of the list has been
\* started and has completed, whichever of them failed.
C3_FailureIsolation ==
  /\ batchCall.pc = "threw"
     => (/\ batchCall.thrown = MkError(MsgNotConnected)
         /\ batchCall.tasks = <<>>
         /\ batchCall.results = <<>>)
  /\ \A i \in DOMAIN batchCall.results :
       LET r == batchCall.results[i]
           t == batchCall.tasks[r.transfer]
       IN  /\ r.success = t.resolved
           /\ r.success => r.error = NoError
           /\ ~r.success => (/\ r.error.kind = "Error"
                             /\ r.error.text # <<>>
                             /\ t.rejection.kind = "Error"
                                => r.error = t.rejection)
  /\ batchCall.pc = "returned"
     => \A j \in DOMAIN batchCall.transfers :
          /\ batchCall.tasks[j].state = "done"
          /\ batchCall.tasks[j].invoked = batchCall.transfers[j].type

\* the first transfer to complete failed, the two others succeeded after it
C3_Witness ==
  /\ batchCall.pc = "returned"
  /\ Len(batchCall.results) = 3
  /\ ~batchCall.results[1].success
  /\ batchCall.results[1].error = MkError(MsgEconnreset)
  /\ batchCall.results[2].success
  /\ batchCall.results[3].success



\* C21 as stated: a batchTransfer call with an empty request list returns
\* an empty result list without an error and without starting a transfer,
\* in every connection state of the adapter.
C21_EmptyListInEveryConnectionState ==
  (batchCall.pc # "idle" /\ batchCall.transfers = <<>>)
  => (/\ batchCall.pc \in {"all", "returned"}
      /\ batchCall.thrown = NoError
      /\ batchCall.results = <<>>
      /\ batchCall.tasks = <<>>)

\* C21, amended: on a connected adapter a batchTransfer call with an empty
\* request list starts no transfer, awaits a Promise.all of nothing and
\* returns an empty result list without an error; on an adapter that is not
\* connected it throws the "Not connected" error of ensureConnected, as it
\* does for every other list.
C21_EmptyListNeedsConnection ==
  /\ [][\A k \in MaxConcurrencyArgs :
          BatchTransferInvoke(<<>>, k)
          => IF connected
             THEN /\ batchCall'.pc = "all"
                  /\ allResolved(batchCall')
                  /\ batchCall'.thrown = NoError
                  /\ batchCall'.results = <<>>
                  /\ batchCall'.tasks = <<>>
                  /\ batchCall'.executing = <<>>
             ELSE /\ batchCall'.pc = "threw"
                  /\ batchCall'.thrown = MkError(MsgNotConnected)
                  /\ batchCall'.tasks = <<>>]_vars
  /\ [][(/\ batchCall.pc = "all"
         /\ batchCall.transfers = <<>>
         /\ batchCall' # batchCall)
        => (/\ batchCall'.pc = "returned"
            /\ batchCall'.results = <<>>
            /\ batchCall'.thrown = NoError
            /\ batchCall'.tasks = <<>>)]_vars

\* a call with an empty list has returned an empty list
C21_Witness ==
  /\ batchCall.pc = "returned"
  /\ batchCall.transfers = <<>>
  /\ batchCall.results = <<>>
  /\ batchCall.tasks = <<>>
  /\ connected


\* the smaller of two numbers
Min(a, b) == IF a <= b THEN a ELSE b

\* C22 as stated: a batchTransfer call whose maxConcurrency is omitted or
\* is not positive runs with the default concurrency 5: when it reaches its
\* first await, as many transfers are in flight as a call with K = 5 has
\* (all of them, up to 5).
C22_NonPositiveRunsWithDefault ==
  [][\A transfers \in TransferLists, k \in MaxConcurrencyArgs :
       (/\ ~IsDefined(k) \/ ValueOf(k) <= 0
        /\ connected
        /\ BatchTransferInvoke(transfers, k))
       => Cardinality(InFlight') = Min(Len(transfers),
                                        DefaultMaxConcurrency)]_vars


\* C31: admission is work-conserving: while batchTransfer waits with the
\* pool full, the completion of any of the transfers it waits for, the
\* oldest or not, lets the loop go on, and when the loop goes on with
\* requests left it starts the next request at once.
C31_WorkConservingAdmission ==
  /\ []((/\ batchCall.pc = "race"
         /\ \E j \in batchCall.waitingOn : batchCall.tasks[j].state = "done")
        => ENABLED BatchTransferRaceResume)
  /\ [][(BatchTransferRaceResume /\ batchCall.next <= Len(batchCall.transfers))
        => (/\ batchCall.tasks[batchCall.next].state = "pending"
            /\ batchCall'.tasks[batchCall.next].state = "running")]_vars

\* the second of two transfers in flight completed first, and the third
\* request was started while the first is still running
C31_Witness ==
  /\ batchCall.maxConcurrency = 2
  /\ Len(batchCall.transfers) >= 3
  /\ batchCall.tasks[1].state = "running"
  /\ batchCall.tasks[2].state = "done"
  /\ batchCall.tasks[3].state = "running"


\* the transfers of the current batchTransfer call that have been started
Started ==
  {j \in DOMAIN batchCall.tasks : batchCall.tasks[j].state # "pending"}

\* the started transfers whose promise in `executing` has not resolved
Unresolved ==
  {j \in DOMAIN batchCall.tasks :
     batchCall.tasks[j].state \in {"running", "settled"}}

\* C32: batchTransfer starts the transfers in submission order: a transfer
\* is started only when all the requests before it have been started; with
\* K >= 1 never more than K started transfers are uncompleted; and while the
\* call waits with the pool full no transfer is started until one of the
\* transfers it waits for has completed.
C32_SubmissionOrderAdmission ==
  /\ [](/\ \A j \in Started : \A i \in 1..(j - 1) : i \in Started
        /\ batchCall.maxConcurrency >= 1
             => Cardinality(Unresolved) <= batchCall.maxConcurrency)
  /\ [][(batchCall.pc \notin {"idle", "threw"} /\ Started' # Started)
        => (/\ batchCall.pc = "race"
            /\ \E j \in batchCall.waitingOn :
                 batchCall.tasks[j].state = "done"
            /\ Started \subseteq Started'
            /\ \A j \in Started' \ Started :
                 \A i \in Started : i < j)]_vars

\* two transfers fill the pool and the third request waits unstarted
C32_Witness ==
  /\ batchCall.pc = "race"
  /\ batchCall.maxConcurrency = 2
  /\ Len(batchCall.transfers) = 3
  /\ batchCall.tasks[1].state = "running"
  /\ batchCall.tasks[2].state = "settled"
  /\ batchCall.tasks[3].state = "pending"


\* C33: the results of batchTransfer are in the order of completion: the
\* j-th result is the result of the j-th transfer to complete, so the list
\* that is returned is a permutation of the requests; with maxConcurrency 1,
\* and whenever the transfers completed in submission order, the i-th
\* result belongs to the i-th request.
C33_ResultsInCompletionOrder ==
  LET results == batchCall.results
      order == batchCall.settleOrder
  IN  /\ Len(results) <= Len(order)
      /\ \A i \in 1..Len(results) :
           /\ results[i].transfer = order[i]
           /\ results[i].request = batchCall.transfers[order[i]]
      /\ batchCall.pc = "returned"
           => (/\ Len(results) = Len(batchCall.transfers)
               /\ {results[i].transfer : i \in 1..Len(results)}
                    = 1..Len(batchCall.transfers))
      /\ (batchCall.pc # "idle" /\ batchCall.maxConcurrency = 1)
           => \A i \in 1..Len(results) : results[i].transfer = i
      /\ (\A i \in 1..Len(order) : order[i] = i)
           => \A i \in 1..Len(results) : results[i].transfer = i

\* three transfers ran together and completed last to first: the returned
\* list has them in that order
C33_Witness ==
  /\ batchCall.pc = "returned"
  /\ batchCall.maxConcurrency = 3
  /\ batchCall.settleOrder = << 3, 2, 1 >>
  /\ Len(batchCall.results) = 3
  /\ batchCall.results[1].transfer = 3
  /\ batchCall.results[3].transfer = 1


\* what a failed transfer rejects with when only its settling matters
SettleErrors == { MkError(MsgFileNotFound) }

\* the calls of NextBatch, each started transfer succeeding or failing
NextBatchFair ==
  \/ Construct
  \/ BatchQuiet /\ ConnectInvoke
  \/ \E ok \in BOOLEAN, err \in ConnectErrors : ConnectSettle(ok, err)
  \/ \E ok \in BOOLEAN, err \in CloseErrors : BatchQuiet /\ Disconnect(ok, err)
  \/ \E transfers \in TransferLists, k \in MaxConcurrencyArgs :
       BatchTransferInvoke(transfers, k)
  \/ \E j \in 1..(MaxTransfers + 1), ok \in BOOLEAN, err \in SettleErrors :
       TransferSettle(j, ok, err)
  \/ \E j \in 1..(MaxTransfers + 1) : TransferThen(j)
  \/ BatchTransferRaceResume
  \/ BatchTransferReturn

\* batchTransfer with the scheduling it relies on: every started upload or
\* download eventually settles (the hypothesis of a terminating batch), and
\* the promise job queue eventually runs each callback and resumes each
\* await whose promise has resolved
SpecBatchFair ==
  /\ Init /\ [][NextBatchFair]_vars
  /\ WF_vars(\E j \in 1..(MaxTransfers + 1), ok \in BOOLEAN,
                err \in SettleErrors : TransferSettle(j, ok, err))
  /\ WF_vars(\E j \in 1..(MaxTransfers + 1) : TransferThen(j))
  /\ WF_vars(BatchTransferRaceResume)
  /\ WF_vars(BatchTransferReturn)

\* batchTransfer is suspended at one of its awaits
BatchAwaiting == batchCall.pc \in {"race", "all"}

\* C37: batchTransfer terminates for every request list and every
\* maxConcurrency (omitted, negative, zero, positive): a call that got past
\* ensureConnected eventually returns provided each started transfer
\* settles; Promise.race is never awaited on an empty set, and every promise
\* awaited belongs to a transfer that was started.
C37_BatchTransferTerminates ==
  /\ [](batchCall.pc = "race" => batchCall.waitingOn # {})
  /\ [](BatchAwaiting => batchCall.waitingOn \subseteq Started)
  /\ (BatchAwaiting ~> batchCall.pc = "returned")

\* a call with maxConcurrency = -1 returned all the results of a full list
C37_Witness ==
  /\ batchCall.pc = "returned"
  /\ batchCall.maxConcurrency = -1
  /\ Len(batchCall.transfers) = MaxTransfers
  /\ Len(batchCall.results) = MaxTransfers


\* the text the unit test of ensureConnected expects in the message
StrNotConnectedToServer ==
  <<"N","o","t"," ","c","o","n","n","e","c","t","e","d"," ","t","o"," ",
    "s","e","r","v","e","r">>

\* C38: a batchTransfer call with a non-empty request list on an adapter
\* whose connected flag is false rejects with an Error whose message holds
\* 'Not connected to server' before any transfer is started: no upload or
\* download is invoked, no promise is kept and no result is produced, and
\* the rejected call never starts one later.
C38_DisconnectedBatchRejectsFirst ==
  /\ [][\A transfers \in TransferLists \ {<<>>}, k \in MaxConcurrencyArgs :
          (BatchTransferInvoke(transfers, k) /\ ~connected)
          => (/\ batchCall'.pc = "threw"
              /\ batchCall'.thrown.kind = "Error"
              /\ Includes(batchCall'.thrown.text, StrNotConnectedToServer)
              /\ batchCall'.transfers = transfers
              /\ batchCall'.tasks = <<>>
              /\ batchCall'.executing = <<>>
              /\ batchCall'.settleOrder = <<>>
              /\ batchCall'.results = <<>>)]_vars
  /\ [](batchCall.pc = "threw" => Started = {} /\ batchCall.results = <<>>)

\* a full list was handed to an adapter that had been disconnected, and the
\* call was rejected
C38_Witness ==
  /\ batchCall.pc = "threw"
  /\ Len(batchCall.transfers) = MaxTransfers
  /\ batchCall.thrown = MkError(MsgNotConnected)
  /\ hasConnectedBefore
  /\ ~connected

(***************************************************************************)
(* SuperFtp: the facade over one lazily connected client                   *)
(* (src/src/super-ftp.ts).  A client is an adapter made by the factory;    *)
(* the facade sees its connect(), disconnect(), isConnected() and its      *)
(* operations.  The calls of the callers interleave at their awaits.       *)
(***************************************************************************)
\* an adapter as the factory returns it
NewClient ==
  [connected |-> FALSE, hasConnectedBefore |-> FALSE, connectCalls |-> 0]

\* mutant of alreadyConnected: the test is missing
alreadyConnectedNever == FALSE

\* this.client && this.client.isConnected()
alreadyConnected == client # 0 /\ clients[client].connected

\* SuperFtp.isConnected
isConnected == IF client # 0 THEN clients[client].connected ELSE FALSE

\* BaseAdapter.connect of a client, from the moment its primitive settles
clientConnect(c, ok, err) ==
  LET p == _connect(ok, err)
  IN  [c EXCEPT !.connected = p.connected,
                !.hasConnectedBefore = IF p.thrown = NoError THEN TRUE ELSE @]

\* FtpAdapter.disconnect of a client
clientDisconnect(c, closeOk) ==
  IF c.connected /\ closeOk THEN [c EXCEPT !.connected = FALSE] ELSE c

\* the part of SuperFtp.connect after its test: a client is created, stored
\* in this.client, and its connect() is called
createAndConnect(call, op) ==
  /\ Len(clients) < MaxClients
  /\ clients' = Append(clients, [NewClient EXCEPT !.connectCalls = 1])
  /\ client' = Len(clients) + 1
  /\ facadeCalls' =
       [facadeCalls EXCEPT ![call] =
          [IdleFacadeCall EXCEPT !.pc = "connecting", !.op = op,
                                 !.mine = Len(clients) + 1]]

CallOver(call) == facadeCalls[call].pc \in {"idle", "returned", "threw"}

\* a caller calls SuperFtp.connect()
SuperFtpConnectInvoke(call) ==
  /\ CallOver(call)
  /\ IF alreadyConnected
     THEN /\ facadeCalls' =
               [facadeCalls EXCEPT ![call] =
                  [IdleFacadeCall EXCEPT !.pc = "returned", !.op = "connect",
                                         !.calledConnected = TRUE]]
          /\ UNCHANGED << client, clients >>
     ELSE createAndConnect(call, "connect")
  /\ UNCHANGED << adapterVars, callVars, classifyVars, now >>

\* a caller calls an operation of the facade: execute() calls getClient(),
\* which calls connect() unless the facade holds a connected client
SuperFtpExecuteInvoke(call) ==
  /\ CallOver(call)
  /\ IF alreadyConnected
     THEN /\ facadeCalls' =
               [facadeCalls EXCEPT ![call] =
                  [IdleFacadeCall EXCEPT !.pc = "invoking", !.op = "execute",
                                         !.calledConnected = TRUE,
                                         !.target = client]]
          /\ UNCHANGED << client, clients >>
     ELSE createAndConnect(call, "execute")
  /\ UNCHANGED << adapterVars, callVars, classifyVars, now >>

\* the connect() of the client a call created settles, and with it the
\* connect() of the facade: a failure propagates to the caller
ClientConnectSettle(call, ok, err) ==
  /\ facadeCalls[call].pc = "connecting"
  /\ LET mine == facadeCalls[call].mine
         p == _connect(ok, err)
     IN  /\ clients' = [clients EXCEPT ![mine] = clientConnect(@, ok, err)]
         /\ facadeCalls' =
              [facadeCalls EXCEPT ![call] =
                 IF p.thrown # NoError
                 THEN [@ EXCEPT !.pc = "threw", !.thrown = p.thrown]
                 ELSE IF @.op = "connect"
                 THEN [@ EXCEPT !.pc = "returned"]
                 ELSE [@ EXCEPT !.pc = "connected"]]
  /\ UNCHANGED client
  /\ UNCHANGED << adapterVars, callVars, classifyVars, now >>

\* getClient() resumes after await this.connect() and returns this.client
GetClientResume(call) ==
  /\ facadeCalls[call].pc = "connected"
  /\ facadeCalls' =
       [facadeCalls EXCEPT ![call] =
          IF client = 0
          THEN [@ EXCEPT !.pc = "threw",
                         !.thrown = MkError(MsgFailedToCreateClient)]
          ELSE [@ EXCEPT !.pc = "invoking", !.target = client]]
  /\ UNCHANGED << client, clients >>
  /\ UNCHANGED << adapterVars, callVars, classifyVars, now >>

\* execute() resumes after await this.getClient() and calls
\* operation(client); the operation of the adapter starts with
\* ensureConnected()
OperationInvoke(call) ==
  /\ facadeCalls[call].pc = "invoking"
  /\ LET target == clients[facadeCalls[call].target]
     IN  facadeCalls' =
           [facadeCalls EXCEPT ![call] =
              [@ EXCEPT !.targetHadConnected = target.hasConnectedBefore,
                        !.targetConnected = target.connected,
                        !.pc = IF target.connected THEN "operating"
                               ELSE "threw",
                        !.thrown = IF target.connected THEN NoError
                                   ELSE MkError(MsgNotConnected)]]
  /\ UNCHANGED << client, clients >>
  /\ UNCHANGED << adapterVars, callVars, classifyVars, now >>

\* the primitive of the operation settles
OperationSettle(call, ok, err) ==
  /\ facadeCalls[call].pc = "operating"
  /\ facadeCalls' =
       [facadeCalls EXCEPT ![call] =
          IF ok THEN [@ EXCEPT !.pc = "returned"]
          ELSE [@ EXCEPT !.pc = "threw", !.thrown = err]]
  /\ UNCHANGED << client, clients >>
  /\ UNCHANGED << adapterVars, callVars, classifyVars, now >>

\* a caller calls SuperFtp.disconnect(): a connected client is disconnected
\* and the call awaits; otherwise this.client = null at once
SuperFtpDisconnectInvoke(call, closeOk, err) ==
  /\ CallOver(call)
  /\ IF alreadyConnected
     THEN /\ clients' = [clients EXCEPT ![client] =
                           clientDisconnect(@, closeOk)]
          /\ facadeCalls' =
               [facadeCalls EXCEPT ![call] =
                  [IdleFacadeCall EXCEPT
                     !.pc = "disconnecting", !.op = "disconnect",
                     !.calledConnected = TRUE, !.target = client,
                     !.thrown =
                        IF closeOk THEN NoError
                        ELSE MkError(PrefixFailedToDisconnect
                                     \o TemplateMessage(err))]]
          /\ UNCHANGED client
     ELSE /\ client' = 0
          /\ facadeCalls' =
               [facadeCalls EXCEPT ![call] =
                  [IdleFacadeCall EXCEPT !.pc = "returned",
                                         !.op = "disconnect"]]
          /\ UNCHANGED clients
  /\ UNCHANGED << adapterVars, callVars, classifyVars, now >>

\* mutant of SuperFtpDisconnectResume: this.client = null is missing
SuperFtpDisconnectResumeKeepsClient(call) ==
  /\ facadeCalls[call].pc = "disconnecting"
  /\ IF facadeCalls[call].thrown # NoError
     THEN facadeCalls' = [facadeCalls EXCEPT ![call].pc = "threw"]
     ELSE facadeCalls' = [facadeCalls EXCEPT ![call].pc = "returned"]
  /\ UNCHANGED << client, clients >>
  /\ UNCHANGED << adapterVars, callVars, classifyVars, now >>

\* disconnect() resumes after await this.client.disconnect(): the rejection
\* propagates, otherwise this.client = null
SuperFtpDisconnectResume(call) ==
  /\ facadeCalls[call].pc = "disconnecting"
  /\ IF facadeCalls[call].thrown # NoError
     THEN /\ facadeCalls' = [facadeCalls EXCEPT ![call].pc = "threw"]
          /\ UNCHANGED client
     ELSE /\ facadeCalls' = [facadeCalls EXCEPT ![call].pc = "returned"]
          /\ client' = 0
  /\ UNCHANGED clients
  /\ UNCHANGED << adapterVars, callVars, classifyVars, now >>

\* what the primitive of a facade operation rejects with
FacadeOperationErrors == { MkError(MsgFileNotFound) }

NextFacade ==
  \E call \in Callers :
    \/ SuperFtpConnectInvoke(call)
    \/ SuperFtpExecuteInvoke(call)
    \/ \E ok \in BOOLEAN, err \in ConnectErrors :
         ClientConnectSettle(call, ok, err)
    \/ GetClientResume(call)
    \/ OperationInvoke(call)
    \/ \E ok \in BOOLEAN, err \in FacadeOperationErrors :
         OperationSettle(call, ok, err)
    \/ \E closeOk \in BOOLEAN, err \in CloseErrors :
         SuperFtpDisconnectInvoke(call, closeOk, err)
    \/ SuperFtpDisconnectResume(call)

SpecFacade == Init /\ [][NextFacade]_vars


(***************************************************************************)
(* Properties of SuperFtp, checked under SpecFacade.                       *)
(***************************************************************************)
\* C15: a connect() called while the facade holds a connected client
\* returns at once, creates no client, leaves this.client as it is and calls
\* no client.connect(); every client the facade created has had its
\* connect() called exactly once, so consecutive connect() calls on a
\* connected facade leave the one client.connect() call that connected it.
C15_ConnectIdempotentWhileConnected ==
  /\ [](\A i \in 1..Len(clients) : clients[i].connectCalls = 1)
  /\ [][\A call \in Callers :
          (client # 0 /\ clients[client].connected
           /\ SuperFtpConnectInvoke(call))
          => /\ clients' = clients
             /\ client' = client
             /\ facadeCalls'[call].pc = "returned"
             /\ facadeCalls'[call].thrown = NoError]_vars

\* a connect() returned at once on a facade connected by its first client
C15_Witness ==
  /\ \E call \in Callers :
       /\ facadeCalls[call].op = "connect"
       /\ facadeCalls[call].pc = "returned"
       /\ facadeCalls[call].calledConnected
  /\ client = 1
  /\ Len(clients) = 1
  /\ clients[1].connected
  /\ clients[1].connectCalls = 1

\* C20 as stated: an operation of the facade is invoked on a client only
\* after a connect() of that client has succeeded; and when the connect() a
\* lazily connecting call made has failed, the operation is not invoked and
\* the call throws the connection error.
C20_LazyConnection ==
  \A call \in Callers :
    LET fc == facadeCalls[call]
    IN  fc.op = "execute"
        => /\ (fc.pc \in {"operating", "returned", "threw"} /\ fc.target # 0)
                => fc.targetHadConnected
           /\ (fc.mine # 0 /\ ~clients[fc.mine].hasConnectedBefore
               /\ fc.pc = "threw")
                => (/\ fc.target = 0
                    /\ fc.thrown \in
                         { MkError(PrefixFailedToConnect \o e.text) :
                             e \in ConnectErrors })




\* C25 as stated: callers whose operations connect one SuperFtp lazily at
\* the same time produce no duplicate session: at most one client is
\* connected, and every connected client is the one the facade holds.
C25_NoDuplicateSessions ==
  (\A call \in Callers : facadeCalls[call].op \in {"none", "execute"})
  => (/\ Cardinality({i \in 1..Len(clients) : clients[i].connected}) <= 1
      /\ \A i \in 1..Len(clients) : clients[i].connected => client = i)


\* C28: SuperFtp.disconnect() calls disconnect() of its client exactly when
\* it holds a client that reports isConnected() = true, and otherwise
\* returns at once leaving the clients alone; a disconnect() that returns
\* normally leaves the facade without a client and isConnected() false,
\* whether it never connected, is connected or failed to connect.
C28_DisconnectDropsClient ==
  [][\A call \in Callers :
       /\ \A closeOk \in BOOLEAN, err \in CloseErrors :
            SuperFtpDisconnectInvoke(call, closeOk, err)
            => IF client # 0 /\ clients[client].connected
               THEN /\ facadeCalls'[call].pc = "disconnecting"
                    /\ facadeCalls'[call].target = client
                    /\ clients' =
                         [clients EXCEPT ![client] =
                            clientDisconnect(@, closeOk)]
               ELSE /\ facadeCalls'[call].pc = "returned"
                    /\ clients' = clients
       /\ (/\ facadeCalls[call].op = "disconnect"
           /\ facadeCalls[call].pc # "returned"
           /\ facadeCalls'[call].op = "disconnect"
           /\ facadeCalls'[call].pc = "returned")
          => (client' = 0 /\ ~isConnected')]_vars

\* a disconnect() of a connected facade has returned: its client is
\* disconnected and dropped
C28_Witness ==
  \E call \in Callers :
    /\ facadeCalls[call].op = "disconnect"
    /\ facadeCalls[call].pc = "returned"
    /\ facadeCalls[call].calledConnected
    /\ facadeCalls[call].target # 0
    /\ ~clients[facadeCalls[call].target].connected
    /\ client = 0

(***************************************************************************)
(* The classification of errors: a caller hands an error to               *)
(* isRetryableError and to shouldAttemptReconnect of an adapter that it    *)
(* constructs, connects and disconnects.                                   *)
(***************************************************************************)
\* what FtpAdapter.upload throws when the transfer rejected with `error`
uploadError(error) == MkError(PrefixFailedToUpload \o TemplateMessage(error))

\* the errors handed to the classifiers: the failures of a session as the
\* transport reports them, the same wrapped by an operation of the adapter,
\* the error of ensureConnected, a thrown non-Error value and undefined
TransportErrors ==
  { MkError(MsgConnectionClosed), MkError(MsgConnectionReset),
    MkError(MsgConnectionLost), MkError(MsgSocketHangUp),
    MkError(MsgRequestTimeout), MkError(MsgConnectionTimeout),
    MkError(MsgNetworkUnreachable), MkError(MsgServiceUnavailable),
    MkError(MsgFileNotFound), MkError(MsgNotConnected) }

ClassifiedErrors ==
  TransportErrors \cup {uploadError(e) : e \in TransportErrors}
    \cup { MkValue(MsgEconnreset), MkValue(MsgSocketHangUp), Undefined }

\* the record of a classification of `error`, kept when the error is the
\* one classified last
classificationOf(error) ==
  IF classified.error = error THEN classified
  ELSE [NoClassification EXCEPT !.error = error]

\* isRetryableError(error) is called
IsRetryableErrorCall(error) ==
  /\ constructed
  /\ classified' = [classificationOf(error) EXCEPT
                      !.retryable = Some(isRetryableError(error))]
  /\ UNCHANGED << callVars, now >>
  /\ UNCHANGED adapterVars
  /\ UNCHANGED facadeVars

\* shouldAttemptReconnect(error) is called
ShouldAttemptReconnectCall(error) ==
  /\ constructed
  /\ classified' = [classificationOf(error) EXCEPT
                      !.should = Some(shouldAttemptReconnect(error)),
                      !.matched = IF ~autoReconnect \/ connected THEN Undef
                                  ELSE Some(matchesReconnectable(error))]
  /\ UNCHANGED << callVars, now >>
  /\ UNCHANGED adapterVars
  /\ UNCHANGED facadeVars

NextClassify ==
  \/ \E baseConfig \in ReconnectConfigs : InitConfig(baseConfig)
  \/ ConnectInvoke
  \/ \E ok \in BOOLEAN, err \in ConnectErrors : ConnectSettle(ok, err)
  \/ \E ok \in BOOLEAN, err \in CloseErrors : Disconnect(ok, err)
  \/ \E error \in ClassifiedErrors : IsRetryableErrorCall(error)
  \/ \E error \in ClassifiedErrors : ShouldAttemptReconnectCall(error)

SpecClassify == Init /\ [][NextClassify]_vars


(***************************************************************************)
(* Properties of the classification, checked under SpecClassify.           *)
(***************************************************************************)
\* both classifiers have answered for one error, and shouldAttemptReconnect
\* got as far as its message test
ClassifiedBoth ==
  /\ IsDefined(classified.retryable)
  /\ IsDefined(classified.matched)

\* the message of the classified error holds the i-th reconnect signature
HoldsSignature(i) ==
  Includes(ToLowerCase(MessageOf(classified.error)), reconnectableErrors[i])

\* C23 as stated: the retry classification is a superset of the reconnect
\* classification: an error whose message matches one of the reconnect
\* signatures of shouldAttemptReconnect is retryable for isRetryableError.
C23_RetrySupersetOfReconnect ==
  (ClassifiedBoth /\ ValueOf(classified.matched))
  => ValueOf(classified.retryable)

\* C23, amended: an error whose message holds one of the signatures
\* "connection closed", "connection reset", "connection lost",
\* "socket hang up" or "timeout" is retryable for isRetryableError; the
\* sixth reconnect signature, "not connected", is no retry signature, and
\* the error of ensureConnected matches the reconnect test without being
\* retryable.
C23_RetryCoversSessionFailures ==
  ClassifiedBoth
  => /\ (\E i \in 1..5 : HoldsSignature(i))
        => (ValueOf(classified.matched) /\ ValueOf(classified.retryable))
     /\ classified.error = MkError(MsgNotConnected)
        => (ValueOf(classified.matched) /\ ~ValueOf(classified.retryable))

\* a wrapped "socket hang up" was classified by both: reconnect-eligible
\* and retryable
C23_Witness ==
  /\ classified.error = uploadError(MkError(MsgSocketHangUp))
  /\ classified.matched = Some(TRUE)
  /\ classified.should = Some(TRUE)
  /\ classified.retryable = Some(TRUE)


(***************************************************************************)
(* The wrappers composed: executeWithRetry(() => executeWithReconnect(op)).*)
(* The operation that executeWithRetry invokes is an executeWithReconnect  *)
(* call, which runs by the actions above while executeWithRetry awaits it; *)
(* what it returns or throws is what the operation of executeWithRetry     *)
(* resolves or rejects with.                                               *)
(***************************************************************************)
\* executeWithReconnect as it stands when operation() of executeWithRetry
\* has called it: updateActivity() done, its own operation() invoked
reconnectInvoked == [IdleReconnectCall EXCEPT !.pc = "operation",
                                              !.opCalls = 1]

\* executeWithRetry is called with the composed operation: the loop is
\* entered and, unless it is over at once, executeWithReconnect is called
ComposedInvoke(maxRetriesArg) ==
  /\ constructed
  /\ retryCall.pc \in {"idle", "returned", "threw"}
  /\ LET maxAttempts == IF IsDefined(maxRetriesArg) THEN ValueOf(maxRetriesArg)
                        ELSE maxRetries
         started == executeWithRetryLoop(
                      [IdleRetryCall EXCEPT !.maxAttempts = maxAttempts,
                                            !.initialDelay = retryDelay,
                                            !.multiplier = retryBackoffMultiplier,
                                            !.currentDelay = retryDelay], 0)
     IN  /\ retryCall' = started
         /\ IF started.pc = "operation"
            THEN /\ reconnectCall' = reconnectInvoked
                 /\ lastActivity' = now
            ELSE UNCHANGED << reconnectCall, lastActivity >>
  /\ UNCHANGED << connectCall, forceCall, lastCall, batchCall, now,
                  connected, hasConnectedBefore >>
  /\ UNCHANGED policyVars
  /\ UNCHANGED facadeVars
  /\ UNCHANGED classifyVars

\* the executeWithReconnect call that executeWithRetry awaits is over:
\* executeWithRetry returns its value, or its catch block runs on what it
\* threw
ComposedSettle ==
  /\ retryCall.pc = "operation"
  /\ \/ /\ reconnectCall.pc = "returned"
        /\ ExecuteWithRetryResolve(reconnectCall.result[1])
     \/ /\ reconnectCall.pc = "threw"
        /\ ExecuteWithRetryCatch(reconnectCall.thrown)

\* the sleep of executeWithRetry is over: the loop goes on and, unless it
\* is over, executeWithReconnect is called again
ComposedWake ==
  /\ retryCall.pc = "sleeping"
  /\ LET resumed ==
           executeWithRetryLoop(
             [retryCall EXCEPT
                !.currentDelay = nextDelay(retryCall.currentDelay,
                                           retryCall.multiplier)],
             retryCall.attempt + 1)
     IN  /\ retryCall' = resumed
         /\ IF resumed.pc = "operation"
            THEN /\ reconnectCall' = reconnectInvoked
                 /\ lastActivity' = now
            ELSE UNCHANGED << reconnectCall, lastActivity >>
  /\ UNCHANGED << connectCall, forceCall, lastCall, batchCall, now,
                  connected, hasConnectedBefore >>
  /\ UNCHANGED policyVars
  /\ UNCHANGED facadeVars
  /\ UNCHANGED classifyVars

\* the maxRetries arguments of the composed calls
ComposedRetryArgs == {Undef, Some(0)}

\* the configurations of the adapters that compose the wrappers: one retry
\* around up to MaxReconnectArg reconnect attempts
ComposedConfigs ==
  {[NoOptions EXCEPT !.maxReconnectAttempts = Some(n),
                     !.maxRetries = Some(1)] : n \in 1..MaxReconnectArg}

\* a composed call is under way
Composing == retryCall.pc \in {"operation", "sleeping"}

\* a caller that connects an adapter and runs composed calls on it, one at
\* a time, while a healthCheck can find the session broken
NextCompose ==
  \/ \E baseConfig \in ComposedConfigs : InitConfig(baseConfig)
  \/ ~Composing /\ ConnectInvoke
  \/ \E ok \in BOOLEAN, err \in ConnectErrors : ConnectSettle(ok, err)
  \/ \E ok \in BOOLEAN, err \in PwdErrors : HealthCheck(ok, err)
  \/ \E m \in ComposedRetryArgs : ComposedInvoke(m)
  \/ \E value \in OperationValues :
       Composing /\ ExecuteWithReconnectResolve(value)
  \/ \E error \in OperationErrors :
       Composing /\ ExecuteWithReconnectCatch(error)
  \/ \E ok \in BOOLEAN, err \in ConnectErrors :
       AttemptReconnectSettle(ok, err)
  \/ AttemptReconnectWake
  \/ \E ok \in BOOLEAN, value \in OperationValues, error \in OperationErrors :
       ExecuteWithReconnectRetrySettle(ok, value, error)
  \/ ComposedSettle
  \/ ComposedWake

SpecCompose == Init /\ [][NextCompose]_vars

(***************************************************************************)
(* Properties of the composed wrappers, checked under SpecCompose.         *)
(***************************************************************************)
\* the error that attemptReconnect throws when its attempts are used up
ReconnectExhausted(error) ==
  /\ error.kind = "Error"
  /\ Len(error.text) >= Len(PrefixFailedToReconnect)
  /\ SubSeq(error.text, 1, Len(PrefixFailedToReconnect))
       = PrefixFailedToReconnect

\* C30 as stated: when executeWithRetry wraps executeWithReconnect and
\* attemptReconnect has used up its attempts, executeWithRetry throws that
\* failure on without another operation() or connect(), whatever the
\* message of the connect error: a reconnect-exhaustion error is the last
\* outcome of the executeWithRetry call, which has thrown it.
C30_ExhaustionEndsComposedCall ==
  \A i \in 1..Len(retryCall.outcomes) :
    (~retryCall.outcomes[i].ok
     /\ ReconnectExhausted(retryCall.outcomes[i].error))
    => (/\ i = Len(retryCall.outcomes)
        /\ retryCall.pc = "threw"
        /\ retryCall.thrown = retryCall.outcomes[i].error)


(***************************************************************************)
(* The executor and the batch engine next to the connection lifecycle: a   *)
(* caller that connects, disconnects and health-checks an adapter while it *)
(* runs, one call at a time, executeWithRetry, batchTransfer and the two   *)
(* classifiers on it.                                                      *)
(***************************************************************************)
\* no executeWithRetry or batchTransfer call is under way
FrameQuiet ==
  /\ retryCall.pc \in {"idle", "returned", "threw"}
  /\ batchCall.pc \in {"idle", "returned", "threw"}

\* the requests, arguments and errors of these calls
FrameTransferLists == {t \in TransferLists : Len(t) <= 1}
FrameRetryArgs == {Some(0), Some(1)}
FrameErrors == { MkError(MsgSocketHangUp), MkError(MsgNotConnected) }

NextFrame ==
  \/ Construct
  \/ ConnectInvoke
  \/ \E ok \in BOOLEAN, err \in ConnectErrors : ConnectSettle(ok, err)
  \/ \E ok \in BOOLEAN, err \in CloseErrors : Disconnect(ok, err)
  \/ \E ok \in BOOLEAN, err \in PwdErrors : HealthCheck(ok, err)
  \/ \E m \in FrameRetryArgs :
       FrameQuiet /\ ExecuteWithRetryInvoke(m, Undef, Undef)
  \/ \E value \in OperationValues : ExecuteWithRetryResolve(value)
  \/ \E error \in FrameErrors : ExecuteWithRetryCatch(error)
  \/ ExecuteWithRetryWake
  \/ \E error \in FrameErrors : FrameQuiet /\ IsRetryableErrorCall(error)
  \/ \E error \in FrameErrors : FrameQuiet /\ ShouldAttemptReconnectCall(error)
  \/ \E transfers \in FrameTransferLists, k \in {Undef, Some(1)} :
       FrameQuiet /\ BatchTransferInvoke(transfers, k)
  \/ \E j \in 1..(MaxTransfers + 1), ok \in BOOLEAN, err \in TransferErrors :
       TransferSettle(j, ok, err)
  \/ \E j \in 1..(MaxTransfers + 1) : TransferThen(j)
  \/ BatchTransferRaceResume
  \/ BatchTransferReturn

SpecFrame == Init /\ [][NextFrame]_vars


(***************************************************************************)
(* Properties of the executor and the batch engine, checked under          *)
(* SpecFrame.                                                              *)
(***************************************************************************)
\* a step of executeWithRetry, of a classifier, or of batchTransfer and
\* executeTransfer
ExecutorOrBatchStep ==
  \/ \E m \in FrameRetryArgs : ExecuteWithRetryInvoke(m, Undef, Undef)
  \/ \E value \in OperationValues : ExecuteWithRetryResolve(value)
  \/ \E error \in FrameErrors : ExecuteWithRetryCatch(error)
  \/ ExecuteWithRetryWake
  \/ \E error \in FrameErrors : IsRetryableErrorCall(error)
  \/ \E error \in FrameErrors : ShouldAttemptReconnectCall(error)
  \/ \E transfers \in FrameTransferLists, k \in {Undef, Some(1)} :
       BatchTransferInvoke(transfers, k)
  \/ \E j \in 1..(MaxTransfers + 1), ok \in BOOLEAN, err \in TransferErrors :
       TransferSettle(j, ok, err)
  \/ \E j \in 1..(MaxTransfers + 1) : TransferThen(j)
  \/ BatchTransferRaceResume
  \/ BatchTransferReturn

\* C34: executeWithRetry, isRetryableError, shouldAttemptReconnect,
\* batchTransfer and executeTransfer write no connection state: each of
\* their steps leaves connected and hasConnectedBefore as they are, on
\* connected and on disconnected adapters, whether the step succeeds,
\* fails or throws; the two fields change only in steps of connect(),
\* disconnect() and healthCheck().
C34_ExecutorLeavesConnectionState ==
  /\ [][ExecutorOrBatchStep
        => (/\ connected' = connected
            /\ hasConnectedBefore' = hasConnectedBefore)]_vars
  /\ [][(connected' # connected \/ hasConnectedBefore' # hasConnectedBefore)
        => \/ \E ok \in BOOLEAN, err \in ConnectErrors : ConnectSettle(ok, err)
           \/ \E ok \in BOOLEAN, err \in CloseErrors : Disconnect(ok, err)
           \/ \E ok \in BOOLEAN, err \in PwdErrors : HealthCheck(ok, err)]_vars

\* an executeWithRetry call gave up on a failing operation and a
\* batchTransfer call returned a failed transfer, on an adapter that is
\* still connected
C34_Witness ==
  /\ connected
  /\ hasConnectedBefore
  /\ retryCall.pc = "threw"
  /\ Len(retryCall.outcomes) = 2
  /\ batchCall.pc = "returned"
  /\ Len(batchCall.results) = 1
  /\ ~batchCall.results[1].success
  /\ classified.should = Some(FALSE)

============================================================================
